---- MODULE Spec2Model ----
(***************************************************************************)
(* shopify-to-feeds: the paginated, retrying catalog client                *)
(* (shopify_to_feeds/scraper/shopify_client.py) and the bounded image      *)
(* downloader (shopify_to_feeds/scraper/image_downloader.py).              *)
(*                                                                         *)
(* Spec        one paginated generator of ShopifyClient driven by a        *)
(*             consumer, with every GET attempt and every sleep a step.    *)
(* SpecImages  one call of ImageDownloader.download_product_images with    *)
(*             its worker pool.                                            *)
(* SpecMap     one source variant of one product mapped to a feed item by  *)
(*             one transformer (shopify_to_feeds/feeds/google.py, bing.py, *)
(*             zbozi.py and the legacy script GMC_feed.py) and serialised. *)
(* SpecBuild   one call of generate() of a feed generator: the scan of the *)
(*             catalog, the shop-info lookup and the write of the file.    *)
(* SpecApi     the HTTP service (shopify_to_feeds/api.py, api.py): the     *)
(*             trigger and status endpoints and the background builds.     *)
(* SpecRequests  get_page_collections and make_request of the legacy       *)
(*             scripts GMC_feed.py, zbozi_feed.py and shopify_scraper.py.  *)
(* SpecZbozi   the entry points of zbozi_feed.py from the fetched products *)
(*             to the items of the feed.                                   *)
(***************************************************************************)
EXTENDS Integers, Sequences, FiniteSets, TLC

VARIABLES
    \* ---- ShopifyClient and one of its generators ----
    resource,       \* which generator runs: "collections", "collection_products", "all_products"
    max_retries,    \* self.max_retries
    gen_pc,         \* "created", "request", "sleep", "suspended", "done", "raised"
                    \* ("unused" where no generator runs)
    page,           \* the generator's local "page" (0 before the body has started)
    attempt,        \* _make_request's loop variable
    buffer,         \* items of the current page not yet yielded
    yielded,        \* history: every item handed to the consumer, in order
    reqlog,         \* history: the URL of every _make_request call, in order
    resplog,        \* history: what each finished _make_request call returned
    trace,          \* history: the GETs and sleeps of the current _make_request call
    \* ---- ImageDownloader.download_product_images ----
    dl_pc,              \* "idle", "pool" (inside the with block), "returned"
                        \* ("unused" where no download runs)
    max_workers,        \* self.max_workers
    folder_exists,      \* os.path.exists(images_folder)
    files,              \* names of the files in images_folder
    folder_before,      \* history: the folder as it was when the call started
    referenced,         \* history: the URLs the items of the call refer to
    total_images,       \* len(image_urls)
    futures,            \* future_to_url, in submission order
    downloaded_images,  \* the mapping the call builds and returns
    completed,          \* the "i" of the as_completed loop
    \* ---- the feed generators ----
    feed_type,          \* "google", "bing", "zbozi" (the package), "gmc" (GMC_feed.py)
                        \* ("unused" where no generator runs)
    in_product,         \* SpecMap: the source product being mapped
    in_variant,         \* SpecMap: the source variant being mapped
    map_pc,             \* SpecMap: "input", "mapped", "skipped", "raised", "serialized"
    variant_data,       \* SpecMap: the feed item the transformer built
    elements,           \* SpecMap: the XML children written for the item
    collections,        \* SpecBuild: the catalog, a list of lists of products
    build_pc,           \* SpecBuild: "scan", "shop_info", "tree", "write",
                        \* "returned", "raised"
    coll_i,             \* SpecBuild: index of the collection being processed
    prod_i,             \* SpecBuild: index of the next product in that collection
    pending,            \* SpecBuild: "variants" of process_collection (GMC_feed.py)
    all_variants,       \* SpecBuild: the items collected so far
    origin,             \* SpecBuild history: <<collection, product>> of every item
    failed,             \* SpecBuild history: indexes of the collections that raised
    lookup,             \* SpecBuild history: what get_shop_info returned
    shop_info,          \* SpecBuild: the record the header is written from
    header,             \* SpecBuild: the header elements of the tree
    output_file,        \* SpecBuild: the file at output_path
    file_before,        \* SpecBuild history: the file at output_path before the call
    \* ---- the HTTP service (shopify_to_feeds/api.py and the legacy api.py) ----
    app,                \* which module serves: "package", "legacy" ("unused" elsewhere)
    feed_states,        \* the module-level dict feed_states
    update_requests,    \* history: the response of every accepted POST /feed/update
    background_tasks,   \* indexes of the accepted requests whose update_feed has not started
    running,            \* index of the request whose update_feed runs, 0 when none does
    builds,             \* history: what the update_feed of each request did
    static_files,       \* names of the files in STATIC_DIR
    status_response,    \* history: the last response of GET /feed/status
    \* ---- get_page_collections and make_request of the legacy scripts ----
    script,             \* "GMC_feed", "zbozi_feed", "shopify_scraper" ("unused" elsewhere)
    sc_pc,              \* "loop", "request", "sleep", "done"
    sc_base,            \* history: the url argument of get_page_collections
    store_pages,        \* number of non-empty collection pages the store serves
    sc_url,             \* the local "url" of get_page_collections
    sc_page,            \* the local "page" of get_page_collections
    retry_count,        \* "attempt" / "retry_count" of the running make_request call
    sc_trace,           \* history: the GETs and sleeps of the last make_request call
    sc_requests,        \* history: the URL of every make_request call, in order
    \* ---- the Zbozi script (zbozi_feed.py) ----
    entry,              \* "main", "create_xml_feed_from_store" ("unused" elsewhere)
    zb_pc,              \* "fetch", "collect", "feed", "written", "no_products", "raised"
    fetched,            \* the products extract_products_collection yields
    all_products,       \* the list handed to create_xml_feed
    zb_i,               \* index of the next element of the running loop
    process_calls,      \* history: the argument of every process_product call
    shopitems           \* the SHOPITEM elements of the tree

clientVars == <<resource, max_retries, gen_pc, page, attempt, buffer, yielded,
                reqlog, resplog, trace>>
imageVars == <<dl_pc, max_workers, folder_exists, files, folder_before, referenced,
               total_images, futures, downloaded_images, completed>>
mapVars == <<in_product, in_variant, map_pc, variant_data, elements>>
buildVars == <<collections, build_pc, coll_i, prod_i, pending, all_variants, origin,
               failed, lookup, shop_info, header, output_file, file_before>>
feedVars == <<feed_type, mapVars, buildVars>>
apiVars == <<app, feed_states, update_requests, background_tasks, running, builds,
             static_files, status_response>>
requestVars == <<script, sc_pc, sc_base, store_pages, sc_url, sc_page, retry_count,
                 sc_trace, sc_requests>>
zboziVars == <<entry, zb_pc, fetched, all_products, zb_i, process_calls, shopitems>>
restVars == <<apiVars, requestVars, zboziVars>>
vars == <<clientVars, imageVars, feedVars, restVars>>

\* ---------------------------------------------------------------- bounds
MaxPages == 2       \* the store serves non-empty pages 1..MaxPages at most
MaxPageLen == 2     \* items on one page
MaxRetries == 3     \* max_retries ranges over 1..MaxRetries
MaxItems == 2       \* feed items passed to one download_product_images call
MaxWorkers == 2     \* max_workers ranges over 1..MaxWorkers

\* ------------------------------------------------------- generic helpers
Range(s) == {s[i] : i \in 1..Len(s)}

IsPrefix(s, t) == Len(s) <= Len(t) /\ SubSeq(t, 1, Len(s)) = s

\* ================================================================ CLIENT
Resources == {"collections", "collection_products", "all_products"}

\* The JSON key each generator reads from the response.
ResourceKey(r) == IF r = "collections" THEN "collections" ELSE "products"

\* The URL each generator builds for page p (the store base URL is fixed).
RequestUrl(r, p) ==
    [path |-> CASE r = "collections" -> "/collections.json"
                [] r = "collection_products" -> "/collections/{handle}/products.json"
                [] OTHER -> "/products.json",
     page |-> p]

\* _make_request's results: None, or the decoded JSON object: the keys it
\* has and the list stored under them.
NoneData == [none |-> TRUE, keys |-> {}, items |-> <<>>]
Dict(ks, its) == [none |-> FALSE, keys |-> ks, items |-> its]

\* data.get(key): the list under key, absent (falsy) when the key is missing.
DataGet(data, key) == IF key \in data.keys THEN data.items ELSE <<>>

PageItems(p, k) == [i \in 1..k |-> <<p, i>>]

\* What the store may answer for page p of resource r: a list of 0..MaxPageLen
\* items (empty beyond MaxPages: the catalog is finite), an object without the
\* key, or an empty object.
Responses(r, p) ==
    {Dict({ResourceKey(r)}, PageItems(p, k)) :
        k \in 0..(IF p <= MaxPages THEN MaxPageLen ELSE 0)}
    \cup {Dict({"errors"}, <<>>), Dict({}, <<>>)}

\* "if not data or not data.get(key): break"
EndOfData_NoneOnly(data, key) == data.none
EndOfData(data, key) ==
    \/ data.none
    \/ data.keys = {}
    \/ DataGet(data, key) = <<>>

\* "if attempt < self.max_retries - 1": sleep before the next attempt.
ShouldSleep_AfterEveryFailure == attempt < max_retries
ShouldSleep == attempt < max_retries - 1

\* The for loop over a page's items is over: the generator moves to the next page.
PageExhausted_Prefetch == Len(buffer) <= 1
PageExhausted == buffer = <<>>

\* "page += 1"
NextPage == page + 1

\* The generator calls _make_request for page p.
StartRequest(p) ==
    /\ page' = p
    /\ reqlog' = Append(reqlog, RequestUrl(resource, p))
    /\ attempt' = 0
    /\ trace' = <<>>
    /\ gen_pc' = "request"

\* The generator's body once _make_request has returned data for the current
\* page: break on end of data, else yield the first item; a list that is empty
\* but not recognised as end of data is iterated zero times and the next page
\* is requested.
AfterRequest(data, tr) ==
    /\ resplog' = Append(resplog, data)
    /\ IF EndOfData(data, ResourceKey(resource))
       THEN /\ gen_pc' = "done"
            /\ trace' = tr
            /\ UNCHANGED <<page, attempt, buffer, yielded, reqlog>>
       ELSE LET items == DataGet(data, ResourceKey(resource)) IN
            IF items # <<>>
            THEN /\ yielded' = Append(yielded, Head(items))
                 /\ buffer' = Tail(items)
                 /\ gen_pc' = "suspended"
                 /\ trace' = tr
                 /\ UNCHANGED <<page, attempt, reqlog>>
            ELSE /\ StartRequest(NextPage)
                 /\ UNCHANGED <<buffer, yielded>>

\* _make_request falls out of its loop: it logs the failure and returns None.
MakeRequestExhausted_Raise(tr) ==
    /\ gen_pc' = "raised"
    /\ resplog' = Append(resplog, NoneData)
    /\ trace' = tr
    /\ UNCHANGED <<page, attempt, buffer, yielded, reqlog>>
MakeRequestExhausted(tr) == AfterRequest(NoneData, tr)

\* The consumer pulls the next item: the generator runs up to its next yield,
\* its next blocking request, or its end.
GenNext ==
    /\ gen_pc \in {"created", "suspended"}
    /\ IF gen_pc = "created"
       THEN /\ StartRequest(1)
            /\ UNCHANGED <<buffer, yielded, resplog>>
       ELSE IF PageExhausted
            THEN /\ StartRequest(NextPage)
                 /\ buffer' = <<>>
                 /\ UNCHANGED <<yielded, resplog>>
            ELSE /\ yielded' = Append(yielded, Head(buffer))
                 /\ buffer' = Tail(buffer)
                 /\ UNCHANGED <<gen_pc, page, attempt, reqlog, resplog, trace>>
    /\ UNCHANGED <<resource, max_retries>>
    /\ UNCHANGED <<imageVars, feedVars, restVars>>

\* requests.get succeeds, raise_for_status passes and the JSON is returned.
RequestOk ==
    /\ gen_pc = "request"
    /\ \E data \in Responses(resource, page) :
           AfterRequest(data, Append(trace, "get_ok"))
    /\ UNCHANGED <<resource, max_retries>>
    /\ UNCHANGED <<imageVars, feedVars, restVars>>

\* requests.get or raise_for_status raises a RequestException, which is caught.
RequestFail ==
    /\ gen_pc = "request"
    /\ IF ShouldSleep
       THEN /\ gen_pc' = "sleep"
            /\ trace' = Append(trace, "get_fail")
            /\ UNCHANGED <<page, attempt, buffer, yielded, reqlog, resplog>>
       ELSE IF attempt + 1 < max_retries
            THEN /\ attempt' = attempt + 1
                 /\ trace' = Append(trace, "get_fail")
                 /\ UNCHANGED <<gen_pc, page, buffer, yielded, reqlog, resplog>>
            ELSE MakeRequestExhausted(Append(trace, "get_fail"))
    /\ UNCHANGED <<resource, max_retries>>
    /\ UNCHANGED <<imageVars, feedVars, restVars>>

\* time.sleep(self.retry_delay) returns; the loop goes to its next attempt.
Sleep ==
    /\ gen_pc = "sleep"
    /\ IF attempt + 1 < max_retries
       THEN /\ attempt' = attempt + 1
            /\ gen_pc' = "request"
            /\ trace' = Append(trace, "sleep")
            /\ UNCHANGED <<page, buffer, yielded, reqlog, resplog>>
       ELSE MakeRequestExhausted(Append(trace, "sleep"))
    /\ UNCHANGED <<resource, max_retries>>
    /\ UNCHANGED <<imageVars, feedVars, restVars>>

ImagesIdle ==
    /\ dl_pc = "unused"
    /\ max_workers = 1
    /\ folder_exists = FALSE
    /\ files = {}
    /\ folder_before = [exists |-> FALSE, files |-> {}]
    /\ referenced = {}
    /\ total_images = 0
    /\ futures = <<>>
    /\ downloaded_images = <<>>
    /\ completed = 0

\* No transformer maps a variant.
MapIdle ==
    /\ in_product = <<>>
    /\ in_variant = <<>>
    /\ map_pc = "unused"
    /\ variant_data = <<>>
    /\ elements = <<>>

\* No feed generator builds a feed.
BuildIdle ==
    /\ collections = <<>>
    /\ build_pc = "unused"
    /\ coll_i = 0
    /\ prod_i = 0
    /\ pending = <<>>
    /\ all_variants = <<>>
    /\ origin = <<>>
    /\ failed = {}
    /\ lookup = <<>>
    /\ shop_info = <<>>
    /\ header = <<>>
    /\ output_file = "absent"
    /\ file_before = "absent"

FeedsIdle ==
    /\ feed_type = "unused"
    /\ MapIdle
    /\ BuildIdle

\* No HTTP service runs.
ApiIdle ==
    /\ app = "unused"
    /\ feed_states = <<>>
    /\ update_requests = <<>>
    /\ background_tasks = {}
    /\ running = 0
    /\ builds = <<>>
    /\ static_files = {}
    /\ status_response = <<>>

\* No legacy script fetches collections.
RequestsIdle ==
    /\ script = "unused"
    /\ sc_pc = "unused"
    /\ sc_base = <<>>
    /\ store_pages = 0
    /\ sc_url = <<>>
    /\ sc_page = 0
    /\ retry_count = 0
    /\ sc_trace = <<>>
    /\ sc_requests = <<>>

\* The Zbozi script does not run.
ZboziIdle ==
    /\ entry = "unused"
    /\ zb_pc = "unused"
    /\ fetched = <<>>
    /\ all_products = <<>>
    /\ zb_i = 0
    /\ process_calls = <<>>
    /\ shopitems = <<>>

RestIdle ==
    /\ ApiIdle
    /\ RequestsIdle
    /\ ZboziIdle

Init ==
    /\ resource \in Resources
    /\ max_retries \in 1..MaxRetries
    /\ gen_pc = "created"
    /\ page = 0
    /\ attempt = 0
    /\ buffer = <<>>
    /\ yielded = <<>>
    /\ reqlog = <<>>
    /\ resplog = <<>>
    /\ trace = <<>>
    /\ ImagesIdle
    /\ FeedsIdle
    /\ RestIdle

Next ==
    \/ GenNext
    \/ RequestOk
    \/ RequestFail
    \/ Sleep

Spec == Init /\ [][Next]_vars

\* ============================================================ DOWNLOADER
\* An image URL: host, path segments and query string. A path that ends in
\* "/" has "" as its last segment. U1 and U2 are two versions of one file
\* (same path, different query); U3 has no file name in its path.
EmptyUrl == [host |-> "", path |-> <<>>, query |-> ""]
U1 == [host |-> "cdn.shop", path |-> <<"files", "pot.jpg">>, query |-> "v=1"]
U2 == [host |-> "cdn.shop", path |-> <<"files", "pot.jpg">>, query |-> "v=2"]
U3 == [host |-> "cdn.shop", path |-> <<"files", "">>, query |-> ""]
ImageUrls == {U1, U2, U3}

\* "hash(url) % 10000"
HashBuckets == 10000
\* str hashes are salted per process: any bucket can come out.
HashVals == {0, HashBuckets - 1}

\* A feed item as the downloader reads it: the image field (missing, "" or a
\* URL) and the "additional_image_link" list (missing, or a list of image
\* sources: none, one, or two different ones).
Field(p, v) == [present |-> p, value |-> v]
AdditionalLists ==
    {<<>>} \cup {<<u>> : u \in ImageUrls}
    \cup {<<U1, U2>>, <<U2, U3>>, <<U3, U1>>}
Items ==
    {[image_link |-> il, additional_image_link |-> al] :
        il \in {Field(FALSE, EmptyUrl)} \cup {Field(TRUE, u) : u \in ImageUrls \cup {EmptyUrl}},
        al \in {Field(FALSE, <<>>)} \cup {Field(TRUE, l) : l \in AdditionalLists}}
ProductLists == UNION {[1..n -> Items] : n \in 0..MaxItems}

\* The folder states a call may find: no folder, an empty one, one holding a file.
FolderStates ==
    {[exists |-> FALSE, files |-> {}], [exists |-> TRUE, files |-> {}],
     [exists |-> TRUE, files |-> {"old.jpg"}]}

\* The loop that fills image_urls, one item at a time.
ItemUrls_PrimaryOnly(item) ==
    IF item.image_link.present /\ item.image_link.value # EmptyUrl
    THEN {item.image_link.value}
    ELSE {}
ItemUrls(item) ==
    (IF item.image_link.present /\ item.image_link.value # EmptyUrl
     THEN {item.image_link.value}
     ELSE {})
    \cup
    (IF item.additional_image_link.present
     THEN Range(item.additional_image_link.value)
     ELSE {})

RECURSIVE CollectImageUrls(_)
CollectImageUrls(products) ==
    IF products = <<>>
    THEN {}
    ELSE CollectImageUrls(SubSeq(products, 1, Len(products) - 1))
         \cup ItemUrls(products[Len(products)])

\* os.path.basename(urlparse(url).path)
Basename(url) == IF url.path = <<>> THEN "" ELSE url.path[Len(url.path)]

\* The name download_image saves url under; h is hash(url) % 10000.
Filename(url, h) ==
    IF Basename(url) # ""
    THEN Basename(url)
    ELSE "image_" \o ToString(h) \o ".jpg"

\* open(filepath, "wb") and write: the file is there afterwards, under one name.
WriteFile_Nowhere(fs, name) == fs
WriteFile(fs, name) == fs \cup {name}

\* A future: its URL, where its task stands, what the task returned, and
\* whether the as_completed loop has handled it.
NoResult == [kind |-> "unset", filename |-> ""]
NewFuture(url) == [url |-> url, state |-> "pending", result |-> NoResult, collected |-> FALSE]

\* future_to_url: one submit per element of image_urls.
RECURSIVE Submit(_)
Submit(urls) ==
    IF urls = {}
    THEN <<>>
    ELSE LET u == CHOOSE x \in urls : TRUE IN <<NewFuture(u)>> \o Submit(urls \ {u})

Running == {i \in 1..Len(futures) : futures[i].state = "running"}
Pending == {i \in 1..Len(futures) : futures[i].state = "pending"}

\* ThreadPoolExecutor(max_workers=self.max_workers): a task starts only on an
\* idle worker thread, and there are at most max_workers threads.
WorkerAvailable_Unbounded == TRUE
WorkerAvailable == Cardinality(Running) < max_workers

\* "downloaded_images[url] = filename"
Assign(d, k, v) == [x \in DOMAIN d \cup {k} |-> IF x = k THEN v ELSE d[x]]

\* The body of the as_completed loop for one finished future: future.result()
\* re-raises the task's exception, which is logged; a filename is stored, None
\* is not.
StoreResult_Unchecked(d, f) ==
    IF f.result.kind \in {"ok", "none"} THEN Assign(d, f.url, f.result.filename) ELSE d
StoreResult(d, f) ==
    IF f.result.kind = "ok" /\ f.result.filename # ""
    THEN Assign(d, f.url, f.result.filename)
    ELSE d

\* The as_completed loop has yielded every future and the with block's exit
\* (shutdown(wait=True)) has joined the workers.
CanReturn_DoneOnly ==
    \A i \in 1..Len(futures) : futures[i].state = "done" => futures[i].collected
CanReturn ==
    /\ \A i \in 1..Len(futures) : futures[i].collected
    /\ \A i \in 1..Len(futures) : futures[i].state = "done"

\* download_product_images is called: the folder is created when missing, the
\* unique URLs are collected, and either the call returns at once (none) or one
\* task per URL is submitted to a fresh pool.
DownloadProductImages ==
    /\ dl_pc = "idle"
    /\ \E products \in ProductLists :
         LET image_urls == CollectImageUrls(products) IN
           /\ referenced' =
                  {u \in ImageUrls :
                      \E i \in 1..Len(products) :
                          \/ /\ products[i].image_link.present
                             /\ products[i].image_link.value = u
                          \/ /\ products[i].additional_image_link.present
                             /\ \E j \in 1..Len(products[i].additional_image_link.value) :
                                    products[i].additional_image_link.value[j] = u}
           /\ total_images' = Cardinality(image_urls)
           /\ IF Cardinality(image_urls) = 0
              THEN /\ dl_pc' = "returned"
                   /\ futures' = <<>>
              ELSE /\ dl_pc' = "pool"
                   /\ futures' = Submit(image_urls)
    /\ folder_exists' = TRUE
    /\ UNCHANGED <<max_workers, files, folder_before, downloaded_images, completed>>
    /\ UNCHANGED <<clientVars, feedVars, restVars>>

\* An idle worker takes the oldest queued task.
WorkerStart ==
    /\ dl_pc = "pool"
    /\ Pending # {}
    /\ WorkerAvailable
    /\ LET i == CHOOSE k \in Pending : \A m \in Pending : k <= m IN
           futures' = [futures EXCEPT ![i].state = "running"]
    /\ UNCHANGED <<dl_pc, max_workers, folder_exists, files, folder_before, referenced,
                   total_images, downloaded_images, completed>>
    /\ UNCHANGED <<clientVars, feedVars, restVars>>

\* download_image: the GET succeeds and the body is written under the derived name.
DownloadOk ==
    /\ dl_pc = "pool"
    /\ \E i \in Running : \E h \in HashVals :
           /\ futures[i].url # EmptyUrl
           /\ LET name == Filename(futures[i].url, h) IN
                /\ files' = WriteFile(files, name)
                /\ futures' = [futures EXCEPT ![i].state = "done",
                                              ![i].result = [kind |-> "ok", filename |-> name]]
    /\ folder_exists' = TRUE
    /\ UNCHANGED <<dl_pc, max_workers, folder_before, referenced, total_images,
                   downloaded_images, completed>>
    /\ UNCHANGED <<clientVars, feedVars, restVars>>

\* download_image returns None: the URL is empty, or the GET raised a
\* RequestException, which is caught and logged.
DownloadFail ==
    /\ dl_pc = "pool"
    /\ \E i \in Running :
           futures' = [futures EXCEPT ![i].state = "done",
                                      ![i].result = [kind |-> "none", filename |-> ""]]
    /\ UNCHANGED <<dl_pc, max_workers, folder_exists, files, folder_before, referenced,
                   total_images, downloaded_images, completed>>
    /\ UNCHANGED <<clientVars, feedVars, restVars>>

\* download_image raises: makedirs, open or write fails with an OSError, which
\* is no RequestException; the file may or may not have been created.
DownloadRaise ==
    /\ dl_pc = "pool"
    /\ \E i \in Running : \E h \in HashVals : \E created \in BOOLEAN :
           /\ futures[i].url # EmptyUrl
           /\ files' = IF created THEN WriteFile(files, Filename(futures[i].url, h)) ELSE files
           /\ futures' = [futures EXCEPT ![i].state = "done",
                                         ![i].result = [kind |-> "raised", filename |-> ""]]
    /\ UNCHANGED <<dl_pc, max_workers, folder_exists, folder_before, referenced,
                   total_images, downloaded_images, completed>>
    /\ UNCHANGED <<clientVars, feedVars, restVars>>

\* as_completed yields a finished future and the loop body handles it.
Collect ==
    /\ dl_pc = "pool"
    /\ \E i \in 1..Len(futures) :
           /\ futures[i].state = "done"
           /\ ~futures[i].collected
           /\ downloaded_images' = StoreResult(downloaded_images, futures[i])
           /\ futures' = [futures EXCEPT ![i].collected = TRUE]
    /\ completed' = completed + 1
    /\ UNCHANGED <<dl_pc, max_workers, folder_exists, files, folder_before, referenced,
                   total_images>>
    /\ UNCHANGED <<clientVars, feedVars, restVars>>

\* The loop and the with block are over: the call returns downloaded_images.
Return ==
    /\ dl_pc = "pool"
    /\ CanReturn
    /\ dl_pc' = "returned"
    /\ UNCHANGED <<max_workers, folder_exists, files, folder_before, referenced,
                   total_images, futures, downloaded_images, completed>>
    /\ UNCHANGED <<clientVars, feedVars, restVars>>

ClientIdle ==
    /\ resource = "all_products"
    /\ max_retries = 1
    /\ gen_pc = "unused"
    /\ page = 0
    /\ attempt = 0
    /\ buffer = <<>>
    /\ yielded = <<>>
    /\ reqlog = <<>>
    /\ resplog = <<>>
    /\ trace = <<>>

InitImages ==
    /\ dl_pc = "idle"
    /\ max_workers \in 1..MaxWorkers
    /\ folder_before \in FolderStates
    /\ folder_exists = folder_before.exists
    /\ files = folder_before.files
    /\ referenced = {}
    /\ total_images = 0
    /\ futures = <<>>
    /\ downloaded_images = <<>>
    /\ completed = 0
    /\ ClientIdle
    /\ FeedsIdle
    /\ RestIdle

NextImages ==
    \/ DownloadProductImages
    \/ WorkerStart
    \/ DownloadOk
    \/ DownloadFail
    \/ DownloadRaise
    \/ Collect
    \/ Return

SpecImages == InitImages /\ [][NextImages]_vars

\* ------------------------------------------------- claims on the client
\* The list a response carries for the generator's resource (none when the
\* key is missing).
PageList(data) == IF ResourceKey(resource) \in data.keys THEN data.items ELSE <<>>

\* A response that arrived and has an empty or missing list.
EmptyPage(data) == ~data.none /\ PageList(data) = <<>>

\* The items of pages 1..k, in order.
RECURSIVE ConcatPages(_)
ConcatPages(k) == IF k <= 0 THEN <<>> ELSE ConcatPages(k - 1) \o PageList(resplog[k])

\* The current _make_request call has returned.
RequestFinished == Len(resplog) = Len(reqlog)

Count(s, S) == Cardinality({i \in 1..Len(s) : s[i] \in S})

\* C1: once the response for page N has an empty or missing list, the
\* generator has ended and page N is the last page ever requested.
C1_EmptyPageEndsPagination ==
    \A p \in 1..Len(resplog) :
        EmptyPage(resplog[p]) => gen_pc = "done" /\ Len(reqlog) = p

C1_Witness ==
    /\ gen_pc = "done"
    /\ Len(resplog) = 2
    /\ resplog[2] = Dict({ResourceKey(resource)}, <<>>)
    /\ Len(yielded) = MaxPageLen

\* C2: when every attempt for page N failed, the generator ends after the
\* items of pages 1..N-1, no later page is requested and nothing is raised.
C2_ExhaustedRetriesTruncate ==
    /\ gen_pc # "raised"
    /\ \A p \in 1..Len(resplog) :
           resplog[p].none =>
               /\ gen_pc = "done"
               /\ Len(reqlog) = p
               /\ yielded = ConcatPages(p - 1)

C2_Witness ==
    /\ Len(resplog) = 2
    /\ resplog[2].none
    /\ max_retries = MaxRetries
    /\ Len(yielded) = MaxPageLen

\* C3: one _make_request call makes at most max_retries GET attempts, none
\* after a successful one, and every sleep lies between two attempts; when all
\* attempts failed there were max_retries of them and max_retries - 1 sleeps.
C3_RetryDiscipline ==
    /\ Count(trace, {"get_ok", "get_fail"}) <= max_retries
    /\ \A i \in 1..Len(trace) :
           /\ trace[i] = "get_ok" => i = Len(trace) /\ RequestFinished
           /\ trace[i] = "sleep" =>
                  /\ i > 1 /\ trace[i - 1] = "get_fail"
                  /\ IF i < Len(trace)
                     THEN trace[i + 1] \in {"get_ok", "get_fail"}
                     ELSE gen_pc = "request"
    /\ (RequestFinished /\ reqlog # <<>> /\ resplog[Len(resplog)].none) =>
           /\ Count(trace, {"get_fail"}) = max_retries
           /\ Count(trace, {"sleep"}) = max_retries - 1

C3_Witness ==
    /\ max_retries = MaxRetries
    /\ RequestFinished
    /\ reqlog # <<>>
    /\ resplog[Len(resplog)].none
    /\ Count(trace, {"sleep"}) = MaxRetries - 1

\* C4: pages are requested as 1, 2, 3, ... of one resource; page N+1 is
\* requested only after page N returned a non-empty list whose every item has
\* been handed to the consumer, and no item is lost or handed over early.
C4_PagesInOrderOnDemand ==
    /\ \A i \in 1..Len(reqlog) :
           reqlog[i].page = i /\ reqlog[i].path = reqlog[1].path
    /\ gen_pc # "created" => page = Len(reqlog)
    /\ Len(resplog) \in {Len(reqlog) - 1, Len(reqlog)}
    /\ \A q \in 1..(Len(reqlog) - 1) : PageList(resplog[q]) # <<>>
    /\ IsPrefix(ConcatPages(Len(reqlog) - 1), yielded)
    /\ gen_pc \in {"request", "sleep"} => yielded = ConcatPages(Len(reqlog) - 1)
    /\ gen_pc = "suspended" => yielded \o buffer = ConcatPages(Len(resplog))

C4_Witness ==
    /\ Len(reqlog) = MaxPages + 1
    /\ Len(yielded) = MaxPages * MaxPageLen
    /\ gen_pc = "request"

\* --------------------------------------------- claims on the downloader
FutureUrls == {futures[i].url : i \in 1..Len(futures)}

SucceededUrls == {futures[i].url : i \in {k \in 1..Len(futures) : futures[k].result.kind = "ok"}}

AllSucceeded == futures # <<>> /\ \A i \in 1..Len(futures) : futures[i].result.kind = "ok"

WrittenNames == {downloaded_images[u] : u \in DOMAIN downloaded_images}

\* C5: one task is dispatched per distinct URL the items refer to (primary
\* image field or additional-image list), however many items refer to it, and
\* the mapping never has more entries than there are such URLs.
C5_OneTaskPerDistinctUrl ==
    dl_pc # "idle" =>
        /\ Len(futures) = Cardinality(referenced)
        /\ FutureUrls = referenced
        /\ total_images = Cardinality(referenced)
        /\ Cardinality(DOMAIN downloaded_images) <= Cardinality(referenced)

C5_Witness ==
    /\ dl_pc = "returned"
    /\ referenced = ImageUrls
    /\ Len(futures) = Cardinality(ImageUrls)
    /\ DOMAIN downloaded_images = ImageUrls

\* C6: when the call has returned, every dispatched task has finished: none
\* is pending or running.
C6_ReturnsAfterAllTasks ==
    dl_pc = "returned" => \A i \in 1..Len(futures) : futures[i].state = "done"

C6_Witness ==
    /\ dl_pc = "returned"
    /\ Len(futures) > max_workers
    /\ \E i, j \in 1..Len(futures) :
           futures[i].result.kind = "ok" /\ futures[j].result.kind # "ok"

\* C7: never more than max_workers downloads are in progress at once.
C7_AtMostMaxWorkersRunning == Cardinality(Running) <= max_workers

C7_Witness ==
    /\ Cardinality(Running) = max_workers
    /\ max_workers = MaxWorkers
    /\ Pending # {}

\* C8: when the call returns, the mapping's keys are exactly the URLs whose
\* task returned a filename, each mapped to that filename; a task that failed
\* adds no entry and stops no other task.
C8_MappingIsExactlySuccesses ==
    /\ DOMAIN downloaded_images \subseteq SucceededUrls
    /\ dl_pc = "returned" =>
           /\ DOMAIN downloaded_images = SucceededUrls
           /\ \A i \in 1..Len(futures) :
                  futures[i].result.kind = "ok" =>
                      downloaded_images[futures[i].url] = futures[i].result.filename

C8_Witness ==
    /\ dl_pc = "returned"
    /\ \E i, j, k \in 1..Len(futures) :
           /\ futures[i].result.kind = "none"
           /\ futures[j].result.kind = "raised"
           /\ futures[k].result.kind = "ok"
    /\ Cardinality(DOMAIN downloaded_images) = 1

\* C9: when no item carries an image URL the call returns an empty mapping
\* and leaves the destination folder as it found it.
C9_NoFolderSideEffect ==
    (dl_pc = "returned" /\ referenced = {}) =>
        /\ DOMAIN downloaded_images = {}
        /\ folder_exists = folder_before.exists
        /\ files = folder_before.files

Get(f, default) == IF f.present THEN f.value ELSE default

\* Texts a transformer cuts or searches are sequences: a title is a sequence
\* of tokens, each token a run of characters that " - Default Title" can only
\* meet whole; a description and a handle are sequences of characters.
Sep == " - "
DefaultTitle == "Default Title"

\* A price as the API sends it: the text, and what float() makes of it
\* (ValueError when numeric is FALSE; cents is the value times 100).
Price(text, numeric, cents) == [text |-> text, numeric |-> numeric, cents |-> cents]
NoPrice == Price("", FALSE, 0)

FeedTypes == {"google", "bing", "zbozi", "gmc"}
PackageFeedTypes == {"google", "bing", "zbozi"}

\* self.store_url after _validate_url: scheme and host, no trailing slash.
StoreUrl == "https://shop.example"
Currency == "CZK"

\* ---- source data ----
VariantTitles ==
    {Field(FALSE, <<>>), Field(TRUE, <<DefaultTitle>>), Field(TRUE, <<"Red">>),
     Field(TRUE, <<DefaultTitle, " / Large">>)}
VariantPrices ==
    {Field(FALSE, NoPrice), Field(TRUE, Price("249.50", TRUE, 24950)),
     Field(TRUE, Price("1234.5", TRUE, 123450)), Field(TRUE, Price("abc", FALSE, 0))}
Skus == {Field(FALSE, ""), Field(TRUE, ""), Field(TRUE, "SKU-1")}
Barcodes == {Field(FALSE, ""), Field(TRUE, ""), Field(TRUE, "8590001")}

BaseVariant ==
    [id |-> Field(TRUE, 101), title |-> Field(TRUE, <<"Red">>),
     price |-> Field(TRUE, Price("249.50", TRUE, 24950)),
     sku |-> Field(TRUE, "SKU-1"), barcode |-> Field(TRUE, "8590001"),
     available |-> Field(TRUE, TRUE),
     compare_at_price |-> Field(FALSE, NoPrice), grams |-> Field(FALSE, 0),
     option1 |-> Field(FALSE, ""), option2 |-> Field(FALSE, ""),
     option3 |-> Field(FALSE, "")]

\* Every combination of title, price, sku and barcode, and for each of them
\* the other attributes present, or one of them missing or different.
Variants ==
    LET core == {[BaseVariant EXCEPT !.title = t, !.price = p, !.sku = s, !.barcode = b] :
                    t \in VariantTitles, p \in VariantPrices, s \in Skus, b \in Barcodes}
    IN  core
        \cup {[v EXCEPT !.id = Field(FALSE, 0)] : v \in core}
        \cup {[v EXCEPT !.available = Field(FALSE, FALSE)] : v \in core}
        \cup {[v EXCEPT !.available = Field(TRUE, FALSE),
                        !.compare_at_price = Field(TRUE, Price("300", TRUE, 30000)),
                        !.grams = Field(TRUE, 1500),
                        !.option1 = Field(TRUE, "Red"),
                        !.option2 = Field(TRUE, "Large")] : v \in core}

Image1 == "https://cdn.shop/files/pot.jpg?v=1"
Image2 == "https://cdn.shop/files/pot-side.jpg"

BaseProduct ==
    [id |-> Field(TRUE, 7), title |-> Field(TRUE, <<"Pot">>),
     handle |-> Field(TRUE, <<"p", "o", "t">>),
     body_html |-> Field(TRUE, <<"<", "p", ">", "H", "i", " ", " ", "!", "<", "/", "p", ">">>),
     vendor |-> Field(TRUE, "Acme"),
     product_type |-> Field(TRUE, <<"Home", "Pots">>),
     tags |-> Field(TRUE, <<>>),
     images |-> Field(TRUE, <<Image1>>),
     options |-> Field(FALSE, <<>>),
     variants |-> Field(TRUE, <<>>)]

\* The base product, or the base product with one attribute missing or different.
Products ==
    {BaseProduct}
    \cup {[BaseProduct EXCEPT !.id = Field(FALSE, 0)],
          [BaseProduct EXCEPT !.title = Field(FALSE, <<>>)],
          [BaseProduct EXCEPT !.title = Field(TRUE, <<"Pot", Sep, DefaultTitle, " Edition">>)],
          [BaseProduct EXCEPT !.title = Field(TRUE, <<"Pot ", "12", " ", "cm">>)],
          [BaseProduct EXCEPT !.handle = Field(FALSE, <<>>)],
          [BaseProduct EXCEPT !.body_html = Field(FALSE, <<>>)],
          [BaseProduct EXCEPT !.body_html = Field(TRUE, <<"a", "<", "b">>)],
          [BaseProduct EXCEPT !.vendor = Field(FALSE, "")],
          [BaseProduct EXCEPT !.product_type = Field(FALSE, <<>>)],
          [BaseProduct EXCEPT !.tags = Field(FALSE, <<>>)],
          [BaseProduct EXCEPT !.tags = Field(TRUE, <<"garden", "sale">>)],
          [BaseProduct EXCEPT !.images = Field(FALSE, <<>>)],
          [BaseProduct EXCEPT !.images = Field(TRUE, <<>>)],
          [BaseProduct EXCEPT !.images = Field(TRUE, <<Image1, Image2>>),
                              !.options = Field(TRUE, <<"Colour">>)]}

\* ---- values of a feed item ----
\* A value of the item dict: a str, a list or a dict (kind says which).
Str(s) == [kind |-> "str", val |-> s]
Lst(l) == [kind |-> "list", val |-> l]
Dct(d) == [kind |-> "dict", val |-> d]

NoFields == [k \in {} |-> Str("")]
Has(d, k) == k \in DOMAIN d

\* ---- utils/helpers.py ----
\* sep.join(parts)
RECURSIVE Join(_, _)
Join(parts, sep) ==
    IF parts = <<>> THEN ""
    ELSE IF Len(parts) = 1 THEN parts[1]
    ELSE parts[1] \o sep \o Join(Tail(parts), sep)

\* The index of the first ">" of s at or after i, 0 when there is none.
RECURSIVE FindClose(_, _)
FindClose(s, i) ==
    IF i > Len(s) THEN 0
    ELSE IF s[i] = ">" THEN i
    ELSE FindClose(s, i + 1)

\* re.sub(r'<[^>]+>', '', text): a "<", one or more characters other than ">",
\* then ">" are removed, leftmost match first.
RECURSIVE StripTags(_)
StripTags(s) ==
    IF s = <<>> THEN <<>>
    ELSE LET close == FindClose(s, 2)
         IN  IF s[1] = "<" /\ close > 2
             THEN StripTags(SubSeq(s, close + 1, Len(s)))
             ELSE <<s[1]>> \o StripTags(Tail(s))

\* re.sub(r'\s+', ' ', text): every run of whitespace becomes one space.
RECURSIVE CollapseSpaces(_)
CollapseSpaces(s) ==
    IF Len(s) < 2 THEN s
    ELSE IF s[1] = " " /\ s[2] = " " THEN CollapseSpaces(Tail(s))
    ELSE <<s[1]>> \o CollapseSpaces(Tail(s))

\* str.strip()
RECURSIVE Strip(_)
Strip(s) ==
    IF s = <<>> THEN s
    ELSE IF s[1] = " " THEN Strip(Tail(s))
    ELSE IF s[Len(s)] = " " THEN Strip(SubSeq(s, 1, Len(s) - 1))
    ELSE s

\* remove_html_tags(text, max_length); max_length = 0 stands for None.
RemoveHtmlTags(text, max_length) ==
    IF text = <<>> THEN <<>>
    ELSE LET cleaned == Strip(CollapseSpaces(StripTags(text)))
         IN  IF max_length > 0 /\ Len(cleaned) > max_length
             THEN SubSeq(cleaned, 1, max_length)
             ELSE cleaned

\* f"{x:.2f}" of a value given in hundredths.
Fixed2(cents) ==
    ToString(cents \div 100) \o "."
    \o (IF cents % 100 < 10 THEN "0" ELSE "") \o ToString(cents % 100)

\* format_price(price, currency)
FormatPrice(price, currency) ==
    IF price.numeric
    THEN Fixed2(price.cents) \o " " \o currency
    ELSE "0.00 " \o currency

\* int(float(price)) as text; the caller has made sure float() succeeds.
IntPrice(price) == ToString(price.cents \div 100)

\* urljoin(base_url, path) for a path that starts with "/": the path
\* replaces the (empty) path of the base.
Urljoin(base_url, path) == base_url \o path

\* str.replace(old, ""): every occurrence, leftmost first, not overlapping.
RECURSIVE RemoveAll(_, _)
RemoveAll(s, old) ==
    IF Len(s) < Len(old) THEN s
    ELSE IF SubSeq(s, 1, Len(old)) = old
         THEN RemoveAll(SubSeq(s, Len(old) + 1, Len(s)), old)
         ELSE <<s[1]>> \o RemoveAll(Tail(s), old)

\* "if x:" for a str attribute, a price text, a number
TruthyStr(f) == f.present /\ f.value # ""
TruthyPrice(f) == f.present /\ f.value.text # ""
TruthyNum(f) == f.present /\ f.value # 0

\* str(x) of an id attribute that may be missing (default "")
IdText(f) == IF f.present THEN ToString(f.value) ELSE ""

TitleSuffix == <<Sep, DefaultTitle>>

\* f"{grams / 1000:.2f} kg"
WeightKg(grams) == Fixed2((grams + 5) \div 10) \o " kg"

\* ---- feeds/google.py: GoogleFeedGenerator._process_product ----
GoogleMaxDescription == 5000

\* The class attributes DEFAULT_SHIPPING and DEFAULT_TAX; no method reads them.
GoogleDefaultShipping ==
    << <<"country", "CZ">>, <<"service", "Standard">>, <<"price", "0 CZK">>,
       <<"carrier_shipping", "true">>, <<"shipping_transit_business_days", "2">> >>
GoogleDefaultTax == << <<"country", "CZ">>, <<"rate", "21.0">>, <<"tax_ship", "y">> >>

\* image_links (the source products carry "images", never "image")
GoogleImageLinks(product) ==
    IF product.images.present /\ product.images.value # <<>>
    THEN product.images.value
    ELSE <<>>

\* The title of a Google item: the concatenation with every " - Default Title" removed.
GoogleTitle(product, variant) ==
    RemoveAll(Get(product.title, <<>>) \o <<Sep>> \o Get(variant.title, <<DefaultTitle>>),
              TitleSuffix)

\* "if variant_sku:" sets gtin and mpn, both from the sku.
GoogleIdentifiers(variant) ==
    IF TruthyStr(variant.sku)
    THEN ("gtin" :> Str(variant.sku.value)) @@ ("mpn" :> Str(variant.sku.value))
    ELSE NoFields

GoogleItem(product, variant) ==
    LET image_links == GoogleImageLinks(product)
        product_type == Get(product.product_type, <<>>)
        product_tags == Get(product.tags, <<>>)
    IN  ("id" :> Str(IdText(variant.id)))
        @@ ("title" :> Str(GoogleTitle(product, variant)))
        @@ ("description" :> Str(RemoveHtmlTags(Get(product.body_html, <<>>),
                                                GoogleMaxDescription)))
        @@ ("link" :> Str(Urljoin(StoreUrl, "/products/" \o Join(Get(product.handle, <<>>), ""))))
        @@ ("image_link" :> Str(IF image_links # <<>> THEN image_links[1] ELSE ""))
        @@ ("availability" :> Str(IF Get(variant.available, FALSE)
                                  THEN "in stock" ELSE "out of stock"))
        @@ ("price" :> Str(FormatPrice(Get(variant.price, Price("0.0", TRUE, 0)), Currency)))
        @@ ("brand" :> Str(Get(product.vendor, "")))
        @@ ("condition" :> Str("new"))
        @@ ("google_product_category" :>
                IF product_tags # <<>> THEN Lst(product_tags) ELSE Str("Home & Garden"))
        @@ (IF product_type # <<>>
            THEN "product_type" :> Str(Join(product_type, "/")) ELSE NoFields)
        @@ GoogleIdentifiers(variant)
        @@ (IF Len(image_links) > 1
            THEN "additional_image_link" :> Lst(Tail(image_links)) ELSE NoFields)

\* Whether the body of the per-variant try raises: every read is a .get with
\* a default and format_price catches the errors of float().
GoogleFails(product, variant) == FALSE

\* ---- feeds/bing.py: BingFeedGenerator._process_product ----
BingDefaultShipping == << [id |-> "PPL", price |-> 0, country |-> "CZ"] >>

\* The subscripts product['title'], variant['price'], ... raise KeyError on a
\* missing key, float() raises ValueError on a text that is no number.
BingFails(product, variant) ==
    \/ ~variant.id.present
    \/ ~product.title.present
    \/ ~variant.title.present
    \/ ~product.handle.present
    \/ ~variant.price.present
    \/ ~variant.price.value.numeric
    \/ ~product.id.present
    \/ (TruthyPrice(variant.compare_at_price) /\ ~variant.compare_at_price.value.numeric)

\* The title of a Bing or Zbozi item: the suffix is left out when the variant
\* title is "Default Title".
PlainTitle(product, variant) ==
    IF variant.title.value # <<DefaultTitle>>
    THEN product.title.value \o <<Sep>> \o variant.title.value
    ELSE product.title.value

\* "MPN": variant.get("sku", "")
BingMpn(variant) == "MPN" :> Str(Get(variant.sku, ""))

BingGtin_Always(variant) == "GTIN" :> Str(Get(variant.barcode, ""))

\* "if variant.get('barcode'):" adds GTIN
BingGtin(variant) ==
    IF TruthyStr(variant.barcode) THEN "GTIN" :> Str(variant.barcode.value) ELSE NoFields

\* The loop over DEFAULT_SHIPPING assigns the one key "Shipping" each time round.
BingShipping ==
    LET last == BingDefaultShipping[Len(BingDefaultShipping)]
    IN  "Shipping" :> Dct(<< <<"Service", last.id>>, <<"Country", last.country>>,
                             <<"Price", ToString(last.price) \o " " \o Currency>> >>)

BingItem(product, variant) ==
    LET images == Get(product.images, <<>>)
    IN  ("ProductID" :> Str(ToString(variant.id.value)))
        @@ ("Title" :> Str(PlainTitle(product, variant)))
        @@ ("Link" :> Str(Urljoin(StoreUrl, "/products/" \o Join(product.handle.value, "")
                                            \o "?variant=" \o ToString(variant.id.value))))
        @@ ("ImageLink" :> Str(IF images # <<>> THEN images[1] ELSE ""))
        @@ ("Price" :> Str(IntPrice(variant.price.value) \o " " \o Currency))
        @@ ("Brand" :> Str(Get(product.vendor, "")))
        @@ BingMpn(variant)
        @@ ("Availability" :> Str(IF Get(variant.available, FALSE)
                                  THEN "In Stock" ELSE "Out of Stock"))
        @@ ("Condition" :> Str("New"))
        @@ ("Description" :> Str(RemoveHtmlTags(Get(product.body_html, <<>>), 0)))
        @@ ("ProductType" :> Str(Join(Get(product.product_type, <<>>), "/")))
        @@ ("ItemGroupID" :> Str(ToString(product.id.value)))
        @@ (IF TruthyPrice(variant.compare_at_price)
            THEN "SalePrice" :> Str(IntPrice(variant.compare_at_price.value) \o " " \o Currency)
            ELSE NoFields)
        @@ (IF TruthyNum(variant.grams)
            THEN "ShippingWeight" :> Str(WeightKg(variant.grams.value)) ELSE NoFields)
        @@ (IF Len(images) > 1
            THEN "AdditionalImageLink" :> Lst(Tail(images)) ELSE NoFields)
        @@ BingShipping
        @@ BingGtin(variant)

\* The keys of a Bing item in the order the code inserts them.
BingKeys ==
    <<"ProductID", "Title", "Link", "ImageLink", "Price", "Brand", "MPN", "Availability",
      "Condition", "Description", "ProductType", "ItemGroupID", "SalePrice",
      "ShippingWeight", "AdditionalImageLink", "Shipping", "GTIN">>

\* ---- feeds/zbozi.py: ZboziFeedGenerator._process_product ----
ZboziDefaultDelivery ==
    << [id |-> "ZASILKOVNA", price |-> 59, cod_price |-> 0],
       [id |-> "PPL", price |-> 59, cod_price |-> 0] >>
ZboziDefaultDeliveryDate == 3

\* str.upper() on the characters of the handles
Upper(c) ==
    CASE c = "p" -> "P" [] c = "o" -> "O" [] c = "t" -> "T" [] OTHER -> c

\* s[:n]
Prefix(s, n) == SubSeq(s, 1, IF Len(s) < n THEN Len(s) ELSE n)

ZboziFails(product, variant) ==
    \/ ~product.title.present
    \/ ~variant.title.present
    \/ ~product.handle.present
    \/ ~variant.id.present
    \/ ~variant.price.present
    \/ ~variant.price.value.numeric
    \/ ~product.id.present
    \/ (TruthyPrice(variant.compare_at_price) /\ ~variant.compare_at_price.value.numeric)

\* variant.get("sku", "") or f"MM-{product['handle'][:10].upper()}"
ZboziProductNo(product, variant) ==
    IF TruthyStr(variant.sku)
    THEN variant.sku.value
    ELSE "MM-" \o Join([i \in 1..Len(Prefix(product.handle.value, 10)) |->
                            Upper(product.handle.value[i])], "")

\* The loop over DEFAULT_DELIVERY assigns the one key "DELIVERY" each time round.
ZboziDelivery ==
    LET last == ZboziDefaultDelivery[Len(ZboziDefaultDelivery)]
    IN  "DELIVERY" :> Dct(<< <<"DELIVERY_ID", last.id>>,
                             <<"DELIVERY_PRICE", ToString(last.price)>>,
                             <<"DELIVERY_PRICE_COD", ToString(last.cod_price)>> >>)

Param(name, val) == << <<"PARAM_NAME", name>>, <<"VAL", val>> >>

\* The name of the n-th option: product["options"][n-1]["name"] when the
\* product has that many options, else the default.
OptionName(product, n, default) ==
    IF Len(Get(product.options, <<>>)) >= n THEN product.options.value[n] ELSE default

\* re.search(r'(\d+)\s*cm', name) on a name given as tokens: the digits of
\* the leftmost run of digits that "cm" follows, with or without white space
\* in between; <<>> when there is none.
DigitTokens == {"12"}
RECURSIVE PotSize(_)
PotSize(name) ==
    IF Len(name) < 2 THEN <<>>
    ELSE IF /\ name[1] \in DigitTokens
            /\ \/ name[2] = "cm"
               \/ Len(name) > 2 /\ name[2] = " " /\ name[3] = "cm"
         THEN <<name[1]>>
         ELSE PotSize(Tail(name))

\* params, in the order of the appends
ZboziParams(product, variant) ==
    (IF TruthyStr(variant.option1)
     THEN <<Param(OptionName(product, 1, "Variant"), variant.option1.value)>>
     ELSE <<>>)
    \o (IF TruthyStr(variant.option2)
        THEN <<Param(OptionName(product, 2, "Variant 2"), variant.option2.value)>>
        ELSE <<>>)
    \o (IF TruthyStr(variant.option3)
        THEN <<Param(OptionName(product, 3, "Variant 3"), variant.option3.value)>>
        ELSE <<>>)
    \o (IF TruthyNum(variant.grams)
        THEN <<Param("Hmotnost", WeightKg(variant.grams.value))>> ELSE <<>>)
    \o (IF variant.available.present
        THEN <<Param("Dostupnost",
                     \* (the diacritics of the labels are left out)
                     IF variant.available.value THEN "Skladem" ELSE "Neni skladem")>>
        ELSE <<>>)
    \o (IF PotSize(PlainTitle(product, variant)) # <<>>
        THEN <<Param("Prumer kvetinace", PotSize(PlainTitle(product, variant))[1] \o " cm")>>
        ELSE <<>>)

ZboziItem(product, variant) ==
    LET images == Get(product.images, <<>>)
    IN  ("PRODUCTNAME" :> Str(PlainTitle(product, variant)))
        @@ ("DESCRIPTION" :> Str(RemoveHtmlTags(Get(product.body_html, <<>>), 0)))
        @@ ("URL" :> Str(Urljoin(StoreUrl, "/products/" \o Join(product.handle.value, "")
                                           \o "?variant=" \o ToString(variant.id.value))))
        @@ ("PRICE_VAT" :> Str(IntPrice(variant.price.value)))
        @@ ("DELIVERY_DATE" :> Str(ToString(ZboziDefaultDeliveryDate)))
        @@ ("IMGURL" :> Str(IF images # <<>> THEN images[1] ELSE ""))
        @@ ("ITEM_ID" :> Str(ToString(variant.id.value)))
        @@ ("ITEMGROUP_ID" :> Str(ToString(product.id.value)))
        @@ ("PRODUCT" :> Str(product.title.value))
        @@ ("MANUFACTURER" :> Str(Get(product.vendor, "")))
        @@ ("CATEGORYTEXT" :> Str(Join(Get(product.product_type, <<>>), " | ")))
        @@ ("EAN" :> Str(Get(variant.barcode, "")))
        @@ ("PRODUCTNO" :> Str(ZboziProductNo(product, variant)))
        @@ ("CONDITION" :> Str("new"))
        @@ ("BRAND" :> Str(Get(product.vendor, "")))
        @@ ("WARRANTY" :> Str("24"))
        @@ ("VISIBILITY" :> Str("1"))
        @@ ("CUSTOM_LABEL_0" :> Str("Shopify"))
        @@ ("CUSTOM_LABEL_1" :> Str(Join(Get(product.product_type, <<>>), "/")))
        @@ ("CUSTOM_LABEL_2" :> Str(Join(Get(product.tags, <<>>), " | ")))
        @@ (IF TruthyPrice(variant.compare_at_price)
            THEN "PRICE_BEFORE_DISCOUNT" :> Str(IntPrice(variant.compare_at_price.value))
            ELSE NoFields)
        @@ (IF Len(images) > 1
            THEN "IMGURL_ALTERNATIVE" :> Lst(Tail(images)) ELSE NoFields)
        @@ ZboziDelivery
        @@ ("PARAM" :> Lst(ZboziParams(product, variant)))

\* The keys of a Zbozi item in the order the code inserts them.
ZboziKeys ==
    <<"PRODUCTNAME", "DESCRIPTION", "URL", "PRICE_VAT", "DELIVERY_DATE", "IMGURL",
      "ITEM_ID", "ITEMGROUP_ID", "PRODUCT", "MANUFACTURER", "CATEGORYTEXT", "EAN",
      "PRODUCTNO", "CONDITION", "BRAND", "WARRANTY", "VISIBILITY", "CUSTOM_LABEL_0",
      "CUSTOM_LABEL_1", "CUSTOM_LABEL_2", "PRICE_BEFORE_DISCOUNT", "IMGURL_ALTERNATIVE",
      "DELIVERY", "PARAM">>

\* ---- GMC_feed.py: remove_html_tags, process_collection ----
GmcMaxDescription == 5000

\* The index of the ">" that ends a match of "<[^<]+?>" begun before i with
\* at least one character in between, 0 when there is none.
RECURSIVE FindCloseNoOpen(_, _)
FindCloseNoOpen(s, i) ==
    IF i > Len(s) THEN 0
    ELSE IF s[i] = "<" THEN 0
    ELSE IF s[i] = ">" /\ i > 2 THEN i
    ELSE FindCloseNoOpen(s, i + 1)

\* re.sub("<[^<]+?>", "", text)[:5000]
RECURSIVE GmcStripTags(_)
GmcStripTags(s) ==
    IF s = <<>> THEN <<>>
    ELSE LET close == FindCloseNoOpen(s, 2)
         IN  IF s[1] = "<" /\ close > 2
             THEN GmcStripTags(SubSeq(s, close + 1, Len(s)))
             ELSE <<s[1]>> \o GmcStripTags(Tail(s))

GmcRemoveHtmlTags(text) == Prefix(GmcStripTags(text), GmcMaxDescription)

\* "if not variant_id: continue"
GmcSkips(variant) == IdText(variant.id) = ""

\* "if variant.get('sku'):" sets gtin, "if variant.get('barcode'):" sets mpn.
GmcIdentifiers(variant) ==
    (IF TruthyStr(variant.sku) THEN "gtin" :> Str(variant.sku.value) ELSE NoFields)
    @@ (IF TruthyStr(variant.barcode) THEN "mpn" :> Str(variant.barcode.value) ELSE NoFields)

\* variant_data of process_collection (no source image carries an id and no
\* source variant an image_id, so the first image is the one that matches)
GmcItem(product, variant) ==
    LET images == Get(product.images, <<>>)
    IN  ("id" :> Str(IdText(variant.id)))
        @@ ("title" :> Str(Get(product.title, <<>>) \o <<Sep>> \o Get(variant.title, <<>>)))
        @@ ("description" :> Str(GmcRemoveHtmlTags(Get(product.body_html, <<>>))))
        @@ ("link" :> Str(StoreUrl \o "/products/" \o Join(Get(product.handle, <<>>), "")))
        @@ ("image_link" :> Str(IF images # <<>> THEN images[1] ELSE ""))
        @@ ("availability" :> Str(IF Get(variant.available, FALSE)
                                  THEN "in stock" ELSE "out of stock"))
        @@ ("price" :> Str(Get(variant.price, Price("0.00", TRUE, 0)).text \o " CZK"))
        @@ ("brand" :> Str("Coasy"))
        @@ ("condition" :> Str("new"))
        @@ ("google_product_category" :> Str("Home & Garden > Plants"))
        @@ GmcIdentifiers(variant)

\* ---- one variant through one transformer ----
\* What the body of the loop over the variants does with one variant:
\* "item" (appended), "skip" (continue) or "raise" (an exception that leaves
\* _process_product).
Outcome(ft, product, variant) ==
    CASE ft = "google" -> IF GoogleFails(product, variant) THEN "skip" ELSE "item"
      [] ft = "bing" -> IF BingFails(product, variant) THEN "raise" ELSE "item"
      [] ft = "zbozi" -> IF ZboziFails(product, variant) THEN "raise" ELSE "item"
      [] ft = "gmc" -> IF GmcSkips(variant) THEN "skip" ELSE "item"

MapVariant(ft, product, variant) ==
    CASE ft = "google" -> GoogleItem(product, variant)
      [] ft = "bing" -> BingItem(product, variant)
      [] ft = "zbozi" -> ZboziItem(product, variant)
      [] ft = "gmc" -> GmcItem(product, variant)

\* ---- the XML children of one item ----
\* An element: its tag, its text (a value of the item: ElementTree takes any
\* object as text and fails on a text that is no str only when it writes) and
\* its children as <<tag, text>> pairs.
Element(tag, text, children) == [tag |-> tag, text |-> text, children |-> children]

\* One element for each entry of a list value.
EachEntry(tag, l) == [i \in 1..Len(l) |-> Element(tag, Str(l[i]), <<>>)]

\* google.py, generate: the required fields, then the optional ones.
GoogleRequired ==
    <<"id", "title", "description", "link", "image_link", "availability", "price",
      "brand", "condition", "google_product_category">>

GoogleElements(it) ==
    [i \in 1..Len(GoogleRequired) |->
        Element("g:" \o GoogleRequired[i], it[GoogleRequired[i]], <<>>)]
    \o (IF Has(it, "gtin") THEN <<Element("g:gtin", it["gtin"], <<>>)>> ELSE <<>>)
    \o (IF Has(it, "mpn") THEN <<Element("g:mpn", it["mpn"], <<>>)>> ELSE <<>>)
    \o (IF Has(it, "product_type")
        THEN <<Element("g:product_type", it["product_type"], <<>>)>> ELSE <<>>)
    \o (IF Has(it, "additional_image_link")
        THEN EachEntry("g:additional_image_link", it["additional_image_link"].val)
        ELSE <<>>)

\* GMC_feed.py, create_xml_feed: the title loses " - Default Title" here, and
\* identifier_exists is "FALSE" unless the item has a gtin or an mpn (no item
\* of process_collection has color, size, material, pattern, gender, age_group).
GmcIdentifierExists(it) ==
    IF Has(it, "gtin") \/ Has(it, "mpn") THEN "TRUE" ELSE "FALSE"

GmcElements(it) ==
    [i \in 1..Len(GoogleRequired) |->
        Element("g:" \o GoogleRequired[i],
                IF GoogleRequired[i] = "title"
                THEN Str(RemoveAll(it["title"].val, TitleSuffix))
                ELSE it[GoogleRequired[i]],
                <<>>)]
    \o <<Element("g:identifier_exists", Str(GmcIdentifierExists(it)), <<>>)>>
    \o (IF Has(it, "gtin") THEN <<Element("g:gtin", it["gtin"], <<>>)>> ELSE <<>>)
    \o (IF Has(it, "mpn") THEN <<Element("g:mpn", it["mpn"], <<>>)>> ELSE <<>>)

\* bing.py and zbozi.py, generate: "for key, value in variant.items()": a list
\* gives one element per entry with the text str(entry) (for an entry that is
\* a dict, the text of the dict), a dict gives one element with a child per
\* key, anything else one element with the text str(value).
RECURSIVE FlatElements(_, _)
FlatElements(it, keys) ==
    IF keys = <<>> THEN <<>>
    ELSE LET key == Head(keys)
             rest == FlatElements(it, Tail(keys))
         IN  IF ~Has(it, key) THEN rest
             ELSE IF it[key].kind = "list" THEN EachEntry(key, it[key].val) \o rest
             ELSE IF it[key].kind = "dict"
                  THEN <<Element(key, Str(""), it[key].val)>> \o rest
             ELSE <<Element(key, it[key], <<>>)>> \o rest

ItemElements(ft, it) ==
    CASE ft = "google" -> GoogleElements(it)
      [] ft = "gmc" -> GmcElements(it)
      [] ft = "bing" -> FlatElements(it, BingKeys)
      [] ft = "zbozi" -> FlatElements(it, ZboziKeys)

\* ---- SpecMap: one variant mapped and serialised ----
\* The loop body of _process_product (process_collection) runs for the variant.
MapStep ==
    /\ map_pc = "input"
    /\ LET outcome == Outcome(feed_type, in_product, in_variant)
       IN  IF outcome = "item"
           THEN /\ variant_data' = MapVariant(feed_type, in_product, in_variant)
                /\ map_pc' = "mapped"
           ELSE /\ variant_data' = NoFields
                /\ map_pc' = IF outcome = "skip" THEN "skipped" ELSE "raised"
    /\ UNCHANGED <<feed_type, in_product, in_variant, elements, buildVars>>
    /\ UNCHANGED <<clientVars, imageVars, restVars>>

\* generate() adds the item's element and its children to the tree.
SerializeStep ==
    /\ map_pc = "mapped"
    /\ elements' = ItemElements(feed_type, variant_data)
    /\ map_pc' = "serialized"
    /\ UNCHANGED <<feed_type, in_product, in_variant, variant_data, buildVars>>
    /\ UNCHANGED <<clientVars, imageVars, restVars>>

InitMap ==
    /\ feed_type \in FeedTypes
    /\ in_variant \in Variants
    /\ \E p \in Products : in_product = [p EXCEPT !.variants = Field(TRUE, <<in_variant>>)]
    /\ map_pc = "input"
    /\ variant_data = NoFields
    /\ elements = <<>>
    /\ BuildIdle
    /\ ClientIdle
    /\ ImagesIdle
    /\ RestIdle

NextMap ==
    \/ MapStep
    \/ SerializeStep

SpecMap == InitMap /\ [][NextMap]_vars

\* ------------------------------------------- claims on the transformers
\* The transformer has built an item for the variant.
ItemBuilt == map_pc \in {"mapped", "serialized"}

\* The variant carries an identifier: a key that is there and not empty.
HasSku == TruthyStr(in_variant.sku)
HasBarcode == TruthyStr(in_variant.barcode)

\* The required fields of each target schema, as the item dict names them.
RequiredFields(ft) ==
    CASE ft = "google" -> Range(GoogleRequired)
      [] ft = "bing" -> {"ProductID", "Title", "Link", "ImageLink", "Price", "Brand", "MPN",
                         "Availability", "Condition", "Description", "ProductType",
                         "ItemGroupID"}
      [] ft = "zbozi" -> {"PRODUCTNAME", "DESCRIPTION", "URL", "PRICE_VAT", "DELIVERY_DATE",
                          "IMGURL", "ITEM_ID", "ITEMGROUP_ID"}

\* Every attribute the variant and the product carry has a usable value:
\* whatever is wrong with the source is a missing attribute.
OnlyMissingData ==
    /\ in_variant.price.present => in_variant.price.value.numeric
    /\ in_variant.compare_at_price.present => in_variant.compare_at_price.value.numeric

ElementsTagged(tag) == {i \in 1..Len(elements) : elements[i].tag = tag}

\* C14: every item a transformer of the package produces has every required
\* field of its schema, and a missing source attribute never makes the
\* transformer fail: once the variant has been processed, an item with all the
\* required fields is there.
C14_RequiredFieldsAlwaysPresent ==
    (feed_type \in PackageFeedTypes /\ map_pc # "input" /\ OnlyMissingData)
        => /\ ItemBuilt
           /\ RequiredFields(feed_type) \subseteq DOMAIN variant_data

\* C17: every item of a Google feed has one identifier_exists element, "FALSE"
\* when the variant has neither barcode nor sku (and then no gtin and no mpn
\* element), "TRUE" when it has either.
C17_IdentifierExists ==
    (feed_type \in {"google", "gmc"} /\ map_pc = "serialized")
        => /\ Cardinality(ElementsTagged("g:identifier_exists")) = 1
           /\ \A i \in ElementsTagged("g:identifier_exists") :
                elements[i].text = Str(IF HasSku \/ HasBarcode THEN "TRUE" ELSE "FALSE")
           /\ (~HasSku /\ ~HasBarcode)
                => ElementsTagged("g:gtin") \cup ElementsTagged("g:mpn") = {}

GtinKey(ft) == IF ft = "bing" THEN "GTIN" ELSE "gtin"
MpnKey(ft) == IF ft = "bing" THEN "MPN" ELSE "mpn"

\* C19: in Google and Bing items the GTIN field, when present, is the
\* variant's barcode, and the MPN field, when present, is the variant's sku
\* (the empty string where the variant has no sku key).
C19_GtinIsBarcodeMpnIsSku ==
    (feed_type \in {"google", "gmc", "bing"} /\ ItemBuilt)
        => /\ Has(variant_data, GtinKey(feed_type))
                => /\ in_variant.barcode.present
                   /\ variant_data[GtinKey(feed_type)] = Str(in_variant.barcode.value)
           /\ Has(variant_data, MpnKey(feed_type))
                => variant_data[MpnKey(feed_type)] = Str(Get(in_variant.sku, ""))

\* The title field of the item dict of each transformer.
TitleKey(ft) ==
    CASE ft = "google" -> "title" [] ft = "bing" -> "Title" [] ft = "zbozi" -> "PRODUCTNAME"

\* C20: for a product and a variant that both have a title, the title of each
\* transformer of the package is the product title when the variant title is
\* "Default Title", and "{product.title} - {variant.title}" otherwise.
C20_TitleStripsDefaultOnly ==
    (feed_type \in PackageFeedTypes /\ ItemBuilt
     /\ in_product.title.present /\ in_variant.title.present)
        => variant_data[TitleKey(feed_type)] =
             Str(IF in_variant.title.value = <<DefaultTitle>>
                 THEN in_product.title.value
                 ELSE in_product.title.value \o <<Sep>> \o in_variant.title.value)

\* The elements of the serialised item with the given tag, in order.
ElementsOf(tag) == SelectSeq(elements, LAMBDA e : e.tag = tag)

\* The delivery methods the elements with the given tag name: the value of
\* the first child of each.
MethodsOf(tag) == [i \in 1..Len(ElementsOf(tag)) |-> ElementsOf(tag)[i].children[1][2]]

ConfiguredIds(methods) == [i \in 1..Len(methods) |-> methods[i].id]

\* C21: every serialised item carries its schema's static sub-records: a
\* Google item the default shipping block and the default tax block, a Bing
\* item one Shipping entry for each method of DEFAULT_SHIPPING, a Zbozi item
\* one DELIVERY entry for each method of DEFAULT_DELIVERY.
C21_StaticSubRecords ==
    (feed_type \in PackageFeedTypes /\ map_pc = "serialized")
        => CASE feed_type = "google" ->
                    /\ Len(ElementsOf("g:shipping")) = 1
                    /\ Len(ElementsOf("g:tax")) = 1
                    /\ \A e \in Range(ElementsOf("g:shipping")) :
                            e.children = GoogleDefaultShipping
                    /\ \A e \in Range(ElementsOf("g:tax")) : e.children = GoogleDefaultTax
             [] feed_type = "bing" ->
                    MethodsOf("Shipping") = ConfiguredIds(BingDefaultShipping)
             [] feed_type = "zbozi" ->
                    MethodsOf("DELIVERY") = ConfiguredIds(ZboziDefaultDelivery)

\* C22: the parameters of a Zbozi item are serialised as one PARAM element
\* each, in the order they were collected, and the children of each element
\* give the parameter's name and value.
C22_ParamElements ==
    (feed_type = "zbozi" /\ map_pc = "serialized")
        => /\ Len(ElementsOf("PARAM")) = Len(variant_data["PARAM"].val)
           /\ \A i \in 1..Len(ElementsOf("PARAM")) :
                ElementsOf("PARAM")[i].children = variant_data["PARAM"].val[i]

\* C30: for a product and a variant that both have a title, the title of the
\* Google transformer is the title the Bing and Zbozi transformers build from
\* the same product and variant.
C30_GoogleTitleIsPlainTitle ==
    (feed_type = "google" /\ ItemBuilt
     /\ in_product.title.present /\ in_variant.title.present)
        => variant_data["title"] = Str(PlainTitle(in_product, in_variant))

\* ========================================================== FEED BUILDS
MaxCollections == 2     \* collections of the store
MaxCollectionLen == 2   \* products of one collection

\* ---- the catalog ----
GoodVariant(id) == [BaseVariant EXCEPT !.id = Field(TRUE, id)]
BadPriceVariant(id) ==
    [BaseVariant EXCEPT !.id = Field(TRUE, id), !.price = Field(TRUE, Price("abc", FALSE, 0))]

ProductA ==
    [BaseProduct EXCEPT !.variants = Field(TRUE, <<GoodVariant(101), GoodVariant(102)>>)]
ProductB ==
    [BaseProduct EXCEPT !.id = Field(TRUE, 8),
                        !.handle = Field(TRUE, <<"t", "o", "p">>),
                        !.vendor = Field(TRUE, ""),
                        !.variants = Field(TRUE, <<GoodVariant(201), BadPriceVariant(202),
                                                   GoodVariant(203)>>)]
ProductC ==
    [BaseProduct EXCEPT !.id = Field(TRUE, 9),
                        !.handle = Field(TRUE, <<"o", "p", "t">>),
                        !.tags = Field(TRUE, <<"garden">>),
                        !.variants = Field(TRUE, <<GoodVariant(301)>>)]
BuildProducts == {ProductA, ProductB, ProductC}

\* What one listing of products yields: products of the store, none twice.
Listings ==
    {l \in UNION {[1..n -> BuildProducts] : n \in 1..MaxCollectionLen} :
        \A i, j \in 1..Len(l) : i # j => l[i] # l[j]}

\* The store as generate() scans it: the collections, each with its products
\* (a product may be in several collections).
Catalogs == UNION {[1..n -> Listings] : n \in 0..MaxCollections}

\* Bing scans the one listing get_all_products() yields.
ScansByCollection(ft) == ft # "bing"

\* ---- _process_product ----
\* The result of _process_product(product): the items of the variants, or an
\* exception that leaves the function (the items built before it are lost
\* with the local list).
RECURSIVE ProcessVariants(_, _, _)
ProcessVariants(ft, p, vs) ==
    IF vs = <<>> THEN [raised |-> FALSE, items |-> <<>>]
    ELSE LET outcome == Outcome(ft, p, Head(vs))
             rest == ProcessVariants(ft, p, Tail(vs))
         IN  IF outcome = "raise" \/ rest.raised
             THEN [raised |-> TRUE, items |-> <<>>]
             ELSE [raised |-> FALSE,
                   items |-> (IF outcome = "item"
                              THEN <<MapVariant(ft, p, Head(vs))>> ELSE <<>>) \o rest.items]

ProcessProduct(ft, p) == ProcessVariants(ft, p, Get(p.variants, <<>>))

\* ---- generate(): the scan ----
\* An exception of _process_product inside the scan: the package's Google and
\* Zbozi generators and GMC_feed.py catch it per collection, Bing has no
\* handler but the outer one, which logs and raises again.
CaughtPerCollection(ft) == ft \in {"google", "zbozi", "gmc"}

\* Where the items of a product go: the package extends all_variants after
\* each product; process_collection of GMC_feed.py returns the items of the
\* whole collection at once.
ExtendsPerProduct(ft) == ft # "gmc"

LastProduct == prod_i = Len(collections[coll_i])
LastCollection == coll_i = Len(collections)

\* The scan moves to the next collection, or is over.
NextCollection ==
    /\ prod_i' = 1
    /\ coll_i' = coll_i + 1
    /\ pending' = <<>>
    /\ build_pc' = IF LastCollection THEN "shop_info" ELSE "scan"

\* The store has no collection (no product): the loop body never runs.
ScanNothing ==
    /\ build_pc = "scan"
    /\ collections = <<>>
    /\ build_pc' = "shop_info"
    /\ UNCHANGED <<feed_type, mapVars, collections, coll_i, prod_i, pending, all_variants,
                   origin, failed, lookup, shop_info, header, output_file, file_before>>
    /\ UNCHANGED <<clientVars, imageVars, restVars>>

\* One product of the current collection goes through _process_product.
ScanProduct ==
    /\ build_pc = "scan"
    /\ collections # <<>>
    /\ LET res == ProcessProduct(feed_type, collections[coll_i][prod_i])
           marks == [i \in 1..Len(res.items) |-> <<coll_i, prod_i>>]
       IN  IF res.raised
           THEN IF CaughtPerCollection(feed_type)
                THEN /\ failed' = failed \cup {coll_i}
                     /\ NextCollection
                     /\ UNCHANGED <<all_variants, origin>>
                ELSE /\ build_pc' = "raised"
                     /\ UNCHANGED <<coll_i, prod_i, pending, all_variants, origin, failed>>
           ELSE /\ UNCHANGED failed
                /\ IF ExtendsPerProduct(feed_type)
                   THEN /\ all_variants' = all_variants \o res.items
                        /\ origin' = origin \o marks
                        /\ IF LastProduct
                           THEN NextCollection
                           ELSE /\ prod_i' = prod_i + 1
                                /\ UNCHANGED <<coll_i, pending, build_pc>>
                   ELSE IF LastProduct
                        THEN /\ all_variants' = all_variants \o [i \in 1..Len(pending) |->
                                                                   pending[i].item] \o res.items
                             /\ origin' = origin \o [i \in 1..Len(pending) |-> pending[i].mark]
                                                 \o marks
                             /\ NextCollection
                        ELSE /\ pending' = pending \o [i \in 1..Len(res.items) |->
                                                         [item |-> res.items[i],
                                                          mark |-> marks[i]]]
                             /\ prod_i' = prod_i + 1
                             /\ UNCHANGED <<coll_i, all_variants, origin, build_pc>>
    /\ UNCHANGED <<feed_type, mapVars, collections, lookup, shop_info, header, output_file,
                   file_before>>
    /\ UNCHANGED <<clientVars, imageVars, restVars>>

\* ---- generate(): the shop info ----
\* get_shop_info(): None, or the record made from the first product.
NoShopInfo == [none |-> TRUE, name |-> "", description |-> "", url |-> ""]
ShopInfo(name, description, url) ==
    [none |-> FALSE, name |-> name, description |-> description, url |-> url]

\* None when the store has no product or the request failed after all
\* retries; else the vendor of the first product stands for the shop's name.
ShopInfoResults(cat) ==
    {NoShopInfo}
    \cup (IF cat = <<>> THEN {}
          ELSE {ShopInfo(Get(cat[1][1].vendor, ""), "", StoreUrl)})

\* "if not shop_info: shop_info = {...}" of the package's generators;
\* create_xml_feed of GMC_feed.py has no such test.
HasShopInfoDefault(ft) == ft # "gmc"
DefaultShopInfo == ShopInfo("E-shop", "", StoreUrl)

GetShopInfo ==
    /\ build_pc = "shop_info"
    /\ \E info \in ShopInfoResults(collections) :
        /\ lookup' = info
        /\ shop_info' = IF info.none /\ HasShopInfoDefault(feed_type)
                        THEN DefaultShopInfo ELSE info
    /\ build_pc' = "tree"
    /\ UNCHANGED <<feed_type, mapVars, collections, coll_i, prod_i, pending, all_variants,
                   origin, failed, header, output_file, file_before>>
    /\ UNCHANGED <<clientVars, imageVars, restVars>>

\* ---- generate(): the tree ----
\* The header elements: Google and GMC_feed.py subscript shop_info, Bing and
\* Zbozi write an empty description whatever shop_info holds.
Header(ft, info) ==
    CASE ft \in {"google", "gmc"} ->
            <<Element("title", Str(info.name), <<>>), Element("link", Str(info.url), <<>>),
              Element("description", Str(info.description), <<>>)>>
      [] ft = "bing" ->
            <<Element("Title", Str(info.name), <<>>), Element("Description", Str(""), <<>>),
              Element("Link", Str(info.url), <<>>)>>
      [] ft = "zbozi" ->
            <<Element("SHOP_NAME", Str(info.name), <<>>),
              Element("SHOP_DESCRIPTION", Str(""), <<>>),
              Element("SHOP_URL", Str(info.url), <<>>)>>

\* shop_info["name"] on None raises TypeError.
HeaderRaises(info) == info.none

\* The tree is built in memory: the header, then one element per item.
BuildTree ==
    /\ build_pc = "tree"
    /\ IF HeaderRaises(shop_info)
       THEN /\ build_pc' = "raised"
            /\ UNCHANGED header
       ELSE /\ build_pc' = "write"
            /\ header' = Header(feed_type, shop_info)
    /\ UNCHANGED <<feed_type, mapVars, collections, coll_i, prod_i, pending, all_variants,
                   origin, failed, lookup, shop_info, output_file, file_before>>
    /\ UNCHANGED <<clientVars, imageVars, restVars>>

\* ---- generate(): the file ----
\* tree.write(output_path) opens the file at output_path for writing, which
\* empties it, and serialises the tree into it element by element.  A text
\* that is no str makes the serialiser raise TypeError where it meets it.
Unwritable(ft, items) ==
    \E i \in 1..Len(items) :
        \E j \in 1..Len(ItemElements(ft, items[i])) :
            ItemElements(ft, items[i])[j].text.kind # "str"

\* What is at output_path once a write has failed after the file was opened.
AfterFailedWrite(before) == "partial"

\* os.makedirs and tree.write succeed.
WriteOk ==
    /\ build_pc = "write"
    /\ ~Unwritable(feed_type, all_variants)
    /\ output_file' = "complete"
    /\ build_pc' = "returned"
    /\ UNCHANGED <<feed_type, mapVars, collections, coll_i, prod_i, pending, all_variants,
                   origin, failed, lookup, shop_info, header, file_before>>
    /\ UNCHANGED <<clientVars, imageVars, restVars>>

\* os.makedirs fails, or the file cannot be opened: nothing is written.
WriteFailsBeforeOpen ==
    /\ build_pc = "write"
    /\ build_pc' = "raised"
    /\ UNCHANGED <<feed_type, mapVars, collections, coll_i, prod_i, pending, all_variants,
                   origin, failed, lookup, shop_info, header, output_file, file_before>>
    /\ UNCHANGED <<clientVars, imageVars, restVars>>

\* The serialiser or the file system fails after the file was opened (a text
\* that is no str, a full disk): the except clause logs and raises again,
\* nothing removes the file.
WriteFailsMidway ==
    /\ build_pc = "write"
    /\ output_file' = AfterFailedWrite(output_file)
    /\ build_pc' = "raised"
    /\ UNCHANGED <<feed_type, mapVars, collections, coll_i, prod_i, pending, all_variants,
                   origin, failed, lookup, shop_info, header, file_before>>
    /\ UNCHANGED <<clientVars, imageVars, restVars>>

InitBuild ==
    /\ feed_type \in FeedTypes
    /\ collections \in Catalogs
    /\ ~ScansByCollection(feed_type) => Len(collections) <= 1
    /\ build_pc = "scan"
    /\ coll_i = 1
    /\ prod_i = 1
    /\ pending = <<>>
    /\ all_variants = <<>>
    /\ origin = <<>>
    /\ failed = {}
    /\ lookup = NoShopInfo
    /\ shop_info = NoShopInfo
    /\ header = <<>>
    /\ file_before \in {"absent", "complete"}
    /\ output_file = file_before
    /\ MapIdle
    /\ ClientIdle
    /\ ImagesIdle
    /\ RestIdle

NextBuild ==
    \/ ScanNothing
    \/ ScanProduct
    \/ GetShopInfo
    \/ BuildTree
    \/ WriteOk
    \/ WriteFailsBeforeOpen
    \/ WriteFailsMidway

SpecBuild == InitBuild /\ [][NextBuild]_vars

\* ------------------------------------------------- claims on the builds
\* The identifier field of the item dict of each transformer.
IdKey(ft) ==
    CASE ft \in {"google", "gmc"} -> "id" [] ft = "bing" -> "ProductID" [] ft = "zbozi" -> "ITEM_ID"

\* The variant identifiers of the items collected so far, in order.
ItemIds == [i \in 1..Len(all_variants) |-> all_variants[i][IdKey(feed_type)].val]

\* The identifiers of the items that came from product p of collection c.
RECURSIVE IdsFrom(_, _, _)
IdsFrom(c, p, i) ==
    IF i > Len(all_variants) THEN <<>>
    ELSE (IF origin[i] = <<c, p>> THEN <<ItemIds[i]>> ELSE <<>>) \o IdsFrom(c, p, i + 1)

\* The identifiers of the variants of a product, in order: all of them, and
\* those whose mapping does not fail.
RECURSIVE IdsOf(_)
IdsOf(vs) == IF vs = <<>> THEN <<>> ELSE <<ToString(Head(vs).id.value)>> \o IdsOf(Tail(vs))

MappingFails(ft, p, v) == Outcome(ft, p, v) # "item"
MappableVariants(ft, p) ==
    SelectSeq(Get(p.variants, <<>>), LAMBDA v : ~MappingFails(ft, p, v))

\* The scan of the catalog has run to its end; it was left by an exception.
ScanCompleted == build_pc # "scan" /\ coll_i > Len(collections)
ScanAborted == build_pc = "raised" /\ coll_i <= Len(collections)

Positions == {<<c, p>> \in (1..MaxCollections) \X (1..MaxCollectionLen) :
                c <= Len(collections) /\ p <= Len(collections[c])}

\* C11: in every transformer of the package a variant whose mapping fails is
\* skipped: the build is not ended by it, and once the scan is over every
\* product of the catalog has given the items of its other variants, in order.
C11_FailedVariantSkipped ==
    (feed_type \in PackageFeedTypes /\ build_pc # "scan")
        => /\ ~ScanAborted
           /\ \A pos \in Positions :
                IdsFrom(pos[1], pos[2], 1)
                    = IdsOf(MappableVariants(feed_type, collections[pos[1]][pos[2]]))

\* C12: when the processing of a collection raises partway through, none of
\* its items is in the feed, those of the products processed before the error
\* included, and every other collection has given all its items.
C12_FailedCollectionDropped ==
    (CaughtPerCollection(feed_type) /\ ScanCompleted)
        => \A pos \in Positions :
                IdsFrom(pos[1], pos[2], 1)
                    = IF pos[1] \in failed
                      THEN <<>>
                      ELSE IdsOf(Get(collections[pos[1]][pos[2]].variants, <<>>))

\* C13: in a feed built collection by collection no two items carry the same
\* variant identifier.
C13_NoDuplicateVariantIds ==
    ScansByCollection(feed_type)
        => \A i, j \in 1..Len(all_variants) : i # j => ItemIds[i] # ItemIds[j]

\* C15: a build that returns has left a complete file at the output path, and
\* in no state is a partially written file at the output path.
C15_NoPartialFile ==
    /\ build_pc = "returned" => output_file = "complete"
    /\ output_file # "partial"

\* The default the callers are to supply: empty name, empty description, the
\* store URL.
EmptyShopInfo == ShopInfo("", "", StoreUrl)

\* C16: when the shop-info lookup yields nothing the build does not fail on
\* it: the record the header is written from has an empty name, an empty
\* description and the store URL, and the header is written from that record.
C16_DefaultShopInfo ==
    (ScanCompleted /\ build_pc # "shop_info" /\ lookup.none)
        => /\ shop_info = EmptyShopInfo
           /\ build_pc \in {"write", "returned", "raised"}
                => header = Header(feed_type, EmptyShopInfo)

\* ================================================================ SERVICE
MaxTriggers == 2    \* POST /feed/update requests the service receives

\* A store URL is the sequence of its parts: the scheme, when the caller
\* gave one, and the host.
StoreUrls == {<<"shop.example">>, <<"https://", "shop.example">>,
              <<"http://", "shop.example">>}

\* The feed_type query parameters the clients send ("heureka" is not a feed
\* type of the service; "bing" takes the same branches as "zbozi").
RequestedFeedTypes == {"google", "zbozi", "heureka"}

ValidFeedTypes == {"google", "bing", "zbozi"}

UrlText(store_url) == Join(store_url, "")

\* store_url.startswith(('http://', 'https://'))
HasScheme(store_url) == Head(store_url) \in {"http://", "https://"}

\* if not store_url.startswith(...): store_url = f"https://{store_url}"
NormalizeUrl(store_url) ==
    IF HasScheme(store_url) THEN store_url ELSE <<"https://">> \o store_url

\* hashlib.md5(store_url.encode()).hexdigest()[:8], for the URLs of StoreUrls.
Md5Prefix(text) ==
    CASE text = "shop.example" -> "455c348a"
      [] text = "https://shop.example" -> "b15a9745"
      [] text = "http://shop.example" -> "3070e7ed"

STATIC_DIR == "static/feeds"

get_feed_filename(store_url, ft) ==
    Md5Prefix(UrlText(store_url)) \o "_" \o ft \o ".xml"

\* os.path.join(STATIC_DIR, filename), as the pair of its parts.
get_feed_path(store_url, ft) == <<STATIC_DIR, get_feed_filename(store_url, ft)>>

\* f"/feeds/{filename}", as the pair of its parts.
get_feed_url(store_url, ft) == <<"/feeds/", get_feed_filename(store_url, ft)>>

\* get_feed_file: the route /feeds/{filename} serves STATIC_DIR/filename.
ServedPath(feed_url) == <<STATIC_DIR, feed_url[2]>>

\* feed_states[store_url] = {...} (a dict assignment)
SetItem(dict, key, value) == (key :> value) @@ dict

ProcessingState(store_url, ft) ==
    [status |-> "processing", feed_url |-> get_feed_url(store_url, ft)]

\* feed_states[store_url].update({"status": "completed", ...})
CompletedState(state) == [state EXCEPT !.status = "completed"]

ErrorState_Completed(message) == [status |-> "completed", error |-> message]

ErrorState(message) == [status |-> "error", error |-> message]

\* str(e) of the exception the generator raised.
GeneratorError == "generator error"

\* What the generator call of update_feed can do.  "written": it wrote the
\* file and returned.  "raised": it raised.  "no_products": the legacy
\* create_xml_feed_from_store of bing_feed.py and zbozi_feed.py found no
\* products and returned None without writing.
GeneratorOutcomes(module, ft) ==
    {"written", "raised"}
        \cup (IF module = "legacy" /\ ft \in {"bing", "zbozi"}
              THEN {"no_products"} ELSE {})

NoBuild == [state |-> "rejected", store_url |-> <<>>, feed_path |-> <<>>,
            wrote |-> FALSE, error |-> ""]

PendingBuild == [NoBuild EXCEPT !.state = "pending"]

\* POST /feed/update/{store_url}?feed_type=ft
TriggerFeedUpdate ==
    /\ app \in {"package", "legacy"}
    /\ running = 0
    /\ Len(update_requests) < MaxTriggers
    /\ \E store_url \in StoreUrls, ft \in RequestedFeedTypes :
        IF ft \notin ValidFeedTypes
        THEN /\ update_requests' = Append(update_requests,
                    [status_code |-> 400, store_url |-> store_url,
                     feed_type |-> ft, feed_url |-> <<>>])
             /\ builds' = Append(builds, NoBuild)
             /\ UNCHANGED background_tasks
        ELSE /\ update_requests' = Append(update_requests,
                    [status_code |-> 200, store_url |-> store_url,
                     feed_type |-> ft,
                     feed_url |-> get_feed_url(store_url, ft)])
             /\ builds' = Append(builds, PendingBuild)
             /\ background_tasks' = background_tasks \cup {Len(update_requests) + 1}
    /\ UNCHANGED <<app, feed_states, running, static_files, status_response>>
    /\ UNCHANGED <<clientVars, imageVars, feedVars, requestVars, zboziVars>>

\* update_feed up to the call of the generator.
UpdateFeedStart ==
    /\ running = 0
    /\ \E i \in background_tasks :
        LET store_url == NormalizeUrl(update_requests[i].store_url)
            ft == update_requests[i].feed_type
        IN  /\ running' = i
            /\ background_tasks' = background_tasks \ {i}
            /\ feed_states' = SetItem(feed_states, store_url,
                                      ProcessingState(store_url, ft))
            /\ builds' = [builds EXCEPT ![i] =
                    [PendingBuild EXCEPT !.state = "running",
                                         !.store_url = store_url,
                                         !.feed_path = get_feed_path(store_url, ft)]]
    /\ UNCHANGED <<app, update_requests, static_files, status_response>>
    /\ UNCHANGED <<clientVars, imageVars, feedVars, requestVars, zboziVars>>

\* The generator returns; update_feed records "completed".
UpdateFeedCompletes ==
    /\ running # 0
    /\ \E outcome \in GeneratorOutcomes(app, update_requests[running].feed_type)
                        \ {"raised"} :
        /\ static_files' = IF outcome = "written"
                           THEN static_files \cup {builds[running].feed_path}
                           ELSE static_files
        /\ builds' = [builds EXCEPT ![running].state = "returned",
                                    ![running].wrote = (outcome = "written")]
    /\ feed_states' = [feed_states EXCEPT ![builds[running].store_url] =
                            CompletedState(@)]
    /\ running' = 0
    /\ UNCHANGED <<app, update_requests, background_tasks, status_response>>
    /\ UNCHANGED <<clientVars, imageVars, feedVars, requestVars, zboziVars>>

\* The generator raises (it may leave a partly written file); the except
\* block of update_feed records "error".
UpdateFeedFails ==
    /\ running # 0
    /\ "raised" \in GeneratorOutcomes(app, update_requests[running].feed_type)
    /\ \E partial \in BOOLEAN :
        /\ static_files' = IF partial
                           THEN static_files \cup {builds[running].feed_path}
                           ELSE static_files
        /\ builds' = [builds EXCEPT ![running].state = "raised",
                                    ![running].wrote = partial,
                                    ![running].error = GeneratorError]
    /\ feed_states' = SetItem(feed_states, builds[running].store_url,
                              ErrorState(GeneratorError))
    /\ running' = 0
    /\ UNCHANGED <<app, update_requests, background_tasks, status_response>>
    /\ UNCHANGED <<clientVars, imageVars, feedVars, requestVars, zboziVars>>

\* History: whether the update_feed of an accepted request for exactly this
\* store_url string has started.
BuildStartedFor(store_url) ==
    \E i \in 1..Len(update_requests) :
        /\ update_requests[i].status_code = 200
        /\ update_requests[i].store_url = store_url
        /\ builds[i].state \in {"running", "returned", "raised"}

\* GET /feed/status/{store_url}
GetFeedStatus ==
    /\ app \in {"package", "legacy"}
    /\ running = 0
    /\ \E store_url \in StoreUrls :
        status_response' =
            IF store_url \notin DOMAIN feed_states
            THEN [store_url |-> store_url, status_code |-> 404,
                  body |-> <<>>, after_start |-> BuildStartedFor(store_url)]
            ELSE [store_url |-> store_url, status_code |-> 200,
                  body |-> feed_states[store_url],
                  after_start |-> BuildStartedFor(store_url)]
    /\ UNCHANGED <<app, feed_states, update_requests, background_tasks, running,
                   builds, static_files>>
    /\ UNCHANGED <<clientVars, imageVars, feedVars, requestVars, zboziVars>>

InitApi ==
    /\ app \in {"package", "legacy"}
    /\ feed_states = <<>>
    /\ update_requests = <<>>
    /\ background_tasks = {}
    /\ running = 0
    /\ builds = <<>>
    /\ static_files = {}
    /\ status_response = <<>>
    /\ ClientIdle
    /\ ImagesIdle
    /\ FeedsIdle
    /\ RequestsIdle
    /\ ZboziIdle

NextApi ==
    \/ TriggerFeedUpdate
    \/ UpdateFeedStart
    \/ UpdateFeedCompletes
    \/ UpdateFeedFails
    \/ GetFeedStatus

SpecApi == InitApi /\ [][NextApi]_vars

\* ------------------------------------------------ claims on the service
StatusOf(states, store_url) ==
    IF store_url \in DOMAIN states THEN states[store_url].status ELSE "absent"

\* C23: the recorded status of a store is "processing" while its build runs;
\* it becomes "completed" only when the generator of the running build
\* returned and "error", with the message, only when it raised; and it
\* changes from any value only by the start of a triggered build for that
\* store or by the end of the build that runs for it.
C23_StatusFollowsBuild ==
    [][\A store_url \in StoreUrls :
        LET old == StatusOf(feed_states, store_url)
            new == StatusOf(feed_states', store_url)
        IN  /\ (running' # 0 /\ builds'[running'].store_url = store_url)
                => new = "processing"
            /\ (running # 0 /\ running' = 0 /\ builds[running].store_url = store_url)
                => /\ old = "processing"
                   /\ builds'[running].state = "returned" => new = "completed"
                   /\ builds'[running].state = "raised"
                        => /\ new = "error"
                           /\ feed_states'[store_url].error = builds'[running].error
                   /\ builds'[running].state \in {"returned", "raised"}
            /\ old # new
                => \/ /\ running = 0
                      /\ running' \in background_tasks
                      /\ NormalizeUrl(update_requests[running'].store_url) = store_url
                      /\ new = "processing"
                   \/ /\ running # 0
                      /\ running' = 0
                      /\ builds[running].store_url = store_url
                      /\ new \in {"completed", "error"}
    ]_vars

\* A build that returned and a later state "error" of another build.
C23_Witness ==
    /\ running = 0
    /\ \E i, j \in 1..Len(builds) :
        /\ builds[i].state = "returned"
        /\ builds[j].state = "raised"
        /\ StatusOf(feed_states, builds[j].store_url) = "error"
        /\ feed_states[builds[j].store_url].error = GeneratorError

\* C26: a GET /feed/status/{u} answered after the build of an accepted
\* POST /feed/update/{u} with the same string u has started is never a 404.
C26_StatusKnownAfterStart ==
    (status_response # <<>> /\ status_response.after_start)
        => status_response.status_code # 404

\* C27: the feed_url of the trigger response names the file the build of
\* that request writes.
C27_FeedUrlNamesWrittenFile ==
    \A i \in 1..Len(builds) :
        (builds[i].state = "returned" /\ builds[i].wrote)
            => ServedPath(update_requests[i].feed_url) = builds[i].feed_path

\* C28: while the recorded status of a store is "completed", the file behind
\* its feed_url exists.
C28_CompletedHasFile ==
    \A store_url \in DOMAIN feed_states :
        feed_states[store_url].status = "completed"
            => ServedPath(feed_states[store_url].feed_url) \in static_files

\* ========================================================= LEGACY SCRIPTS
\* get_page_collections and make_request of GMC_feed.py, zbozi_feed.py and
\* shopify_scraper.py, with every GET attempt and every sleep a step.
Scripts == {"GMC_feed", "zbozi_feed", "shopify_scraper"}

\* Settings.MAX_RETRIES (the same value in the three scripts)
MAX_RETRIES == 3

\* The store base URLs the caller passes.
ScriptStores == {"https://shop.example", "https://other.example"}

\* f"/collections.json?page={page}"
CollectionsPage(p) == "/collections.json?page=" \o ToString(p)

\* The URL the loop body requests.  GMC_feed.py and shopify_scraper.py build
\* it in a local full_url from the parameter url; zbozi_feed.py assigns
\* f"{url}/collections.json?page={page}" to url itself.
FullUrl(url, p) == url \o CollectionsPage(p)

\* The value of the variable url after the assignment of the loop body.
UrlAfter(name, url, p) == IF name = "zbozi_feed" THEN FullUrl(url, p) ELSE url

\* Whether the requested URL is the collections page p of the store.
WellFormed(requested, p) == requested = FullUrl(sc_base, p)

\* The top of the while loop: the URL is built and make_request is called.
LoopIteration ==
    /\ sc_pc = "loop"
    /\ sc_url' = UrlAfter(script, sc_url, sc_page)
    /\ sc_requests' = Append(sc_requests, FullUrl(sc_url, sc_page))
    /\ retry_count' = 0
    /\ sc_trace' = <<>>
    /\ sc_pc' = "request"
    /\ UNCHANGED <<script, sc_base, store_pages, sc_page>>
    /\ UNCHANGED <<clientVars, imageVars, feedVars, apiVars, zboziVars>>

\* make_request returned data: a non-empty page is yielded and the loop goes
\* on, anything else ends the generator.
AfterMakeRequest(nonempty) ==
    IF nonempty
    THEN /\ sc_page' = sc_page + 1
         /\ sc_pc' = "loop"
    ELSE /\ sc_pc' = "done"
         /\ UNCHANGED sc_page

\* requests.get succeeds.  The store answers a well-formed request with the
\* page asked for; what it answers to another URL is its own choice.
GetOk ==
    /\ sc_pc = "request"
    /\ sc_trace' = Append(sc_trace, "get_ok")
    /\ \E nonempty \in BOOLEAN :
        /\ nonempty => sc_page <= MaxPages
        /\ WellFormed(sc_requests[Len(sc_requests)], sc_page)
                => (nonempty <=> sc_page <= store_pages)
        /\ AfterMakeRequest(nonempty)
    /\ UNCHANGED <<script, sc_base, store_pages, sc_url, retry_count, sc_requests>>
    /\ UNCHANGED <<clientVars, imageVars, feedVars, apiVars, zboziVars>>

\* Whether the except block sleeps after the failure of attempt number
\* retries (counted from 0).
SleepsAfterFailure(name, retries) ==
    CASE name = "GMC_feed" -> retries < MAX_RETRIES - 1
      [] name = "shopify_scraper" -> TRUE
      [] name = "zbozi_feed" -> retries < MAX_RETRIES

\* Whether another GET follows the sleep after the failure of attempt number
\* retries.
RetriesAfterSleep(name, retries) ==
    CASE name = "GMC_feed" -> TRUE
      [] name = "shopify_scraper" -> retries + 1 < MAX_RETRIES
      [] name = "zbozi_feed" -> TRUE

\* requests.get or raise_for_status raises a RequestException.
GetFail ==
    /\ sc_pc = "request"
    /\ sc_trace' = Append(sc_trace, "get_fail")
    /\ IF SleepsAfterFailure(script, retry_count)
       THEN /\ sc_pc' = "sleep"
            /\ UNCHANGED sc_page
       ELSE AfterMakeRequest(FALSE)
    /\ UNCHANGED <<script, sc_base, store_pages, sc_url, retry_count, sc_requests>>
    /\ UNCHANGED <<clientVars, imageVars, feedVars, apiVars, zboziVars>>

\* time.sleep(Settings.RETRY_DELAY) returns.
ScriptSleep ==
    /\ sc_pc = "sleep"
    /\ sc_trace' = Append(sc_trace, "sleep")
    /\ retry_count' = retry_count + 1
    /\ IF RetriesAfterSleep(script, retry_count)
       THEN /\ sc_pc' = "request"
            /\ UNCHANGED sc_page
       ELSE AfterMakeRequest(FALSE)
    /\ UNCHANGED <<script, sc_base, store_pages, sc_url, sc_requests>>
    /\ UNCHANGED <<clientVars, imageVars, feedVars, apiVars, zboziVars>>

InitRequests ==
    /\ script \in Scripts
    /\ sc_pc = "loop"
    /\ sc_base \in ScriptStores
    /\ store_pages \in 0..MaxPages
    /\ sc_url = sc_base
    /\ sc_page = 1
    /\ retry_count = 0
    /\ sc_trace = <<>>
    /\ sc_requests = <<>>
    /\ ClientIdle
    /\ ImagesIdle
    /\ FeedsIdle
    /\ ApiIdle
    /\ ZboziIdle

NextRequests ==
    \/ LoopIteration
    \/ GetOk
    \/ GetFail
    \/ ScriptSleep

SpecRequests == InitRequests /\ [][NextRequests]_vars

\* ----------------------------------------- claims on the legacy requests
GetsOf(events) == Len(SelectSeq(events, LAMBDA e : e \in {"get_ok", "get_fail"}))

MakeRequestReturned == sc_pc \in {"loop", "done"} /\ sc_trace # <<>>

\* C24: one make_request call of a legacy script makes at most MAX_RETRIES
\* GET attempts and, once it has returned, its last step was not a sleep.
C24_BoundedAttemptsNoFinalSleep ==
    /\ GetsOf(sc_trace) <= MAX_RETRIES
    /\ MakeRequestReturned => sc_trace[Len(sc_trace)] # "sleep"

\* C25: the N-th request of zbozi_feed.get_page_collections goes to
\* {store}/collections.json?page=N with the store URL the caller passed.
C25_RequestsUseBaseUrl ==
    script = "zbozi_feed"
        => \A n \in 1..Len(sc_requests) : sc_requests[n] = FullUrl(sc_base, n)

\* ======================================================= THE ZBOZI SCRIPT
\* The two entry points of zbozi_feed.py, main and
\* create_xml_feed_from_store, from the fetched products to the SHOPITEM
\* elements (the header of the feed is left out).
MaxFetched == 2     \* products the store yields to one run

\* A fetched product: the dict of products.json, with the keys the run reads.
ScriptProduct(id, variant_ids) == [id |-> id, variants |-> variant_ids]

ScriptProducts ==
    {ScriptProduct(7, <<101>>), ScriptProduct(8, <<201, 202>>),
     ScriptProduct(9, <<301>>)}

\* The products extract_products_collection yields, in order.
FetchedLists == UNION {[1..n -> ScriptProducts] : n \in 0..MaxFetched}

\* The variant_data dict process_product builds for one variant.
ScriptItem(product, variant_id) ==
    [ITEM_ID |-> variant_id, ITEMGROUP_ID |-> product.id]

\* process_product(product, base_url): the list of variant_data dicts, or a
\* KeyError when the argument has no "variants" key (line 106).
process_product(product) ==
    IF "variants" \in DOMAIN product
    THEN [raised |-> FALSE,
          variants |-> [i \in 1..Len(product.variants) |->
                            ScriptItem(product, product.variants[i])]]
    ELSE [raised |-> TRUE, variants |-> <<>>]

\* process_collection, called by main: one pass of its loop
\* (products.extend(process_product(product, url))); main extends
\* all_products with the list it returns.
ProcessCollectionStep ==
    /\ entry = "main"
    /\ zb_pc = "fetch"
    /\ zb_i <= Len(fetched)
    /\ process_calls' = Append(process_calls, fetched[zb_i])
    /\ all_products' = all_products \o process_product(fetched[zb_i]).variants
    /\ zb_i' = zb_i + 1
    /\ UNCHANGED <<entry, zb_pc, fetched, shopitems>>
    /\ UNCHANGED <<clientVars, imageVars, feedVars, apiVars, requestVars>>

\* create_xml_feed_from_store: all_products.extend(products), one product
\* at a time.
CollectStep ==
    /\ entry = "create_xml_feed_from_store"
    /\ zb_pc = "fetch"
    /\ zb_i <= Len(fetched)
    /\ all_products' = Append(all_products, fetched[zb_i])
    /\ zb_i' = zb_i + 1
    /\ UNCHANGED <<entry, zb_pc, fetched, process_calls, shopitems>>
    /\ UNCHANGED <<clientVars, imageVars, feedVars, apiVars, requestVars>>

\* The store has no further product.  create_xml_feed_from_store returns
\* None for an empty list; otherwise, and in main always, create_xml_feed is
\* called with all_products.
FetchDone ==
    /\ zb_pc = "fetch"
    /\ zb_i > Len(fetched)
    /\ zb_pc' = IF entry = "create_xml_feed_from_store" /\ all_products = <<>>
                THEN "no_products" ELSE "feed"
    /\ zb_i' = 1
    /\ UNCHANGED <<entry, fetched, all_products, process_calls, shopitems>>
    /\ UNCHANGED <<clientVars, imageVars, feedVars, apiVars, requestVars>>

\* create_xml_feed: one pass of "for product in products", which calls
\* process_product and adds a SHOPITEM for each variant it returns; its
\* KeyError ends the run.
CreateXmlFeedStep ==
    /\ zb_pc = "feed"
    /\ zb_i <= Len(all_products)
    /\ process_calls' = Append(process_calls, all_products[zb_i])
    /\ LET result == process_product(all_products[zb_i])
       IN  IF result.raised
           THEN /\ zb_pc' = "raised"
                /\ UNCHANGED <<zb_i, shopitems>>
           ELSE /\ shopitems' = shopitems \o result.variants
                /\ zb_i' = zb_i + 1
                /\ UNCHANGED zb_pc
    /\ UNCHANGED <<entry, fetched, all_products>>
    /\ UNCHANGED <<clientVars, imageVars, feedVars, apiVars, requestVars>>

\* create_xml_feed: tree.write(output_path)
WriteFeed ==
    /\ zb_pc = "feed"
    /\ zb_i > Len(all_products)
    /\ zb_pc' = "written"
    /\ UNCHANGED <<entry, fetched, all_products, zb_i, process_calls, shopitems>>
    /\ UNCHANGED <<clientVars, imageVars, feedVars, apiVars, requestVars>>

InitZbozi ==
    /\ entry \in {"main", "create_xml_feed_from_store"}
    /\ zb_pc = "fetch"
    /\ fetched \in FetchedLists
    /\ all_products = <<>>
    /\ zb_i = 1
    /\ process_calls = <<>>
    /\ shopitems = <<>>
    /\ ClientIdle
    /\ ImagesIdle
    /\ FeedsIdle
    /\ ApiIdle
    /\ RequestsIdle

NextZbozi ==
    \/ ProcessCollectionStep
    \/ CollectStep
    \/ FetchDone
    \/ CreateXmlFeedStep
    \/ WriteFeed

SpecZbozi == InitZbozi /\ [][NextZbozi]_vars

\* ------------------------------------------- claims on the Zbozi script
\* C29: process_product is only ever called with a fetched product, never
\* with a dict it returned, and once the feed is written every fetched
\* product has been through it exactly once.
C29_ProcessedExactlyOnce ==
    /\ \A i \in 1..Len(process_calls) : "variants" \in DOMAIN process_calls[i]
    /\ zb_pc = "written" => process_calls = fetched

====
